---- MODULE Spec2Model ----
(***************************************************************************)
(* Model of the warehouse batch service (the batch aggregator): the Batch  *)
(* aggregate, the in-memory batch repository, BatchService, and the        *)
(* OrderService that turns order events into batch operations.  The        *)
(* service publishes through the mock publisher of its tests (Spec); the   *)
(* Kafka publisher adapter, with its retry on an unknown topic, is a       *)
(* second state machine (PublisherSpec).                                   *)
(*                                                                         *)
(* Wall-clock stamps (createdAt, updatedAt, addedAt and the event          *)
(* timestamp) are not kept; ProcessedAt is kept as "set / not set".  The   *)
(* clock is kept at the one-second resolution generateBatchID formats it   *)
(* with.  A Go pointer that may be nil is a sequence of length 0 or 1.     *)
(* Ranging over a Go map visits the entries in an unspecified order, so a  *)
(* repository query that returns the first match is a choice among all     *)
(* matches: every service operation is the set of outcomes it can have.    *)
(***************************************************************************)
EXTENDS Integers, Sequences, FiniteSets, TLC

VARIABLES batches, published, clock, calls, last

\* the number of messages the consumer has read from the order events topic:
\* the reader of a consumer group goes on from there
VARIABLES offset

\* for every published event, what the repository held under the event's
\* batch id at the moment PublishBatchEvent was called
VARIABLES storedAtPublish

\* the Kafka publisher adapter, its PublishBatchEvent call in progress and the
\* messages the broker has taken
VARIABLES publisher, publishing, kafkaLog

serviceVars ==
    <<batches, published, clock, calls, last, offset, storedAtPublish>>

publisherVars == <<publisher, publishing, kafkaLog>>

\* the order management service: the orders of its repository, the order
\* events its publisher has queued, the loop of its consumer with the
\* delivery it took last from the queue and the call of the handler for it,
\* and the requests its API is serving, each with the call of the service
\* it has made
VARIABLES orders, orderPublished, delivery, api

aggregatorVars == <<orders, orderPublished, delivery, api>>

\* the sensor detector: the events it has stored, its order publisher, and
\* the call of messageHandler for a message of the sensor topic, with what
\* it attempted
VARIABLES eventStore, orderPublisher, handling

detectorVars == <<eventStore, orderPublisher, handling>>

\* the damage events that the two publishers of the detector's package have
\* built for one sensor value
VARIABLES built

\* the sensor simulator: its two temperature limits, the requests to change
\* them that its HTTP server is handling, and the generator of main's loop
VARIABLES MinTemperature, MaxTemperature, handlers, generator

simulatorVars == <<MinTemperature, MaxTemperature, handlers, generator>>

\* main: TEMP_MIN and TEMP_MAX are not set, the limits are the defaults, in
\* tenths of a degree
DefaultMinTemperature == 70

DefaultMaxTemperature == 120

\* the process of the batch service: the turn of its consumer loop, with the
\* message read and the number of messages handled, and its shutdown
VARIABLES consumer, shutdown

processVars == <<consumer, shutdown>>

\* two runs of the batch service over one sequence of order events, each with
\* its own wall clock
VARIABLES twin

twinVars == <<twin>>

\* the in-memory batch repository with the batch a caller holds a pointer to;
\* cells are the time.Time values that ProcessedAt pointers point to
VARIABLES memory

memoryVars == <<memory>>

\* the queue order management consumes from: the messages ready in it, the
\* deliveries the broker holds unacknowledged, those the client has received
\* and the loop has not taken yet, the delivery the loop of the consumer has
\* in hand, the settled messages, and whether the connection is up and the
\* loop running
VARIABLES queue

queueVars == <<queue>>

\* the detector's MQTT publisher: the calls of PublishOrderDamageFromSensor,
\* each with its goroutine, and the messages the damage topic has taken
VARIABLES mqttPublisher

mqttVars == <<mqttPublisher>>

vars ==
    <<batches, published, clock, calls, last, offset, storedAtPublish,
      publisher, publishing, kafkaLog, orders, orderPublished, delivery, api,
      eventStore, orderPublisher, handling, built,
      MinTemperature, MaxTemperature, handlers, generator,
      consumer, shutdown, twin, memory, queue,
      mqttPublisher>>

\* ---- bounds -------------------------------------------------------------
MaxClock == 1
MaxCalls == 3
MaxPublishes == 2
MaxDeliveries == 2
MaxReadings == 2
MaxRequests == 2
MaxEvents == 2
MaxMessages == 2
MaxRestarts == 1
MaxTwinEvents == 2
MaxCells == 2
MaxQueued == 2
MaxLost == 1

\* ---- inputs -------------------------------------------------------------
OrderIds == {"o1", "o2"}
ProductIds == {"p1", "p2"}
Quantities == {1, 2}

\* ---- domain: batch status ----------------------------------------------
BatchStatusPending == "pending"
BatchStatusProcessing == "processing"
BatchStatusCompleted == "completed"
BatchStatusCancelled == "cancelled"
BatchStatusDamaged == "damaged"

NoError == ""

\* ---- domain: Batch -------------------------------------------------------
NewBatch(id, productID) ==
    [id |-> id, productId |-> productID, status |-> BatchStatusPending,
     items |-> <<>>, totalItems |-> 0, processedAt |-> FALSE]

\* index of the first item of the batch with this order id, 0 if there is none
ItemIndex(b, orderID) ==
    IF \E i \in 1..Len(b.items) : b.items[i].orderId = orderID
    THEN CHOOSE i \in 1..Len(b.items) :
            /\ b.items[i].orderId = orderID
            /\ \A j \in 1..(i - 1) : b.items[j].orderId # orderID
    ELSE 0

RemoveAt(s, i) == [j \in 1..(Len(s) - 1) |-> IF j < i THEN s[j] ELSE s[j + 1]]

\* AddItem as it would be without the search for an item of the same order
AddItem_AlwaysAppend(b, orderID, productID, quantity, status) ==
    IF b.productId # productID
    THEN [batch |-> b, err |-> "product ID mismatch"]
    ELSE IF b.status = BatchStatusCompleted \/ b.status = BatchStatusCancelled
    THEN [batch |-> b, err |-> "cannot add items to batch"]
    ELSE LET item == [orderId |-> orderID, productId |-> productID,
                      quantity |-> quantity, status |-> status,
                      processedAt |-> FALSE]
             its == Append(b.items, item)
         IN [batch |-> [b EXCEPT !.items = its, !.totalItems = Len(its)],
             err |-> NoError]

AddItem(b, orderID, productID, quantity, status) ==
    IF b.productId # productID
    THEN [batch |-> b, err |-> "product ID mismatch"]
    ELSE IF b.status = BatchStatusCompleted \/ b.status = BatchStatusCancelled
    THEN [batch |-> b, err |-> "cannot add items to batch"]
    ELSE LET i == ItemIndex(b, orderID) IN
         IF i # 0
         THEN [batch |-> [b EXCEPT !.items[i].quantity = quantity,
                                   !.items[i].status = status],
               err |-> NoError]
         ELSE LET item == [orderId |-> orderID, productId |-> productID,
                           quantity |-> quantity, status |-> status,
                           processedAt |-> FALSE]
                  its == Append(b.items, item)
              IN [batch |-> [b EXCEPT !.items = its, !.totalItems = Len(its)],
                  err |-> NoError]

\* RemoveItem as it would be without the recount of TotalItems
RemoveItem_StaleTotal(b, orderID) ==
    IF b.status = BatchStatusCompleted
    THEN [batch |-> b, err |-> "cannot remove items from completed batch"]
    ELSE LET i == ItemIndex(b, orderID) IN
         IF i # 0
         THEN [batch |-> [b EXCEPT !.items = RemoveAt(b.items, i)], err |-> NoError]
         ELSE [batch |-> b, err |-> "order not found in batch"]

RemoveItem(b, orderID) ==
    IF b.status = BatchStatusCompleted
    THEN [batch |-> b, err |-> "cannot remove items from completed batch"]
    ELSE LET i == ItemIndex(b, orderID) IN
         IF i # 0
         THEN LET its == RemoveAt(b.items, i)
              IN [batch |-> [b EXCEPT !.items = its, !.totalItems = Len(its)],
                  err |-> NoError]
         ELSE [batch |-> b, err |-> "order not found in batch"]

UpdateItemStatus(b, orderID, status) ==
    LET i == ItemIndex(b, orderID) IN
    IF i # 0
    THEN [batch |-> [b EXCEPT !.items[i].status = status,
                              !.items[i].processedAt =
                                  IF status \in {"processed", "shipped", "delivered"}
                                  THEN TRUE ELSE @],
          err |-> NoError]
    ELSE [batch |-> b, err |-> "order not found in batch"]

StartProcessing(b) ==
    IF b.status # BatchStatusPending
    THEN [batch |-> b, err |-> "cannot start processing batch"]
    ELSE [batch |-> [b EXCEPT !.status = BatchStatusProcessing], err |-> NoError]

Complete(b) ==
    IF b.status # BatchStatusProcessing
    THEN [batch |-> b, err |-> "cannot complete batch"]
    ELSE [batch |-> [b EXCEPT !.status = BatchStatusCompleted, !.processedAt = TRUE],
          err |-> NoError]

Cancel(b) ==
    IF b.status = BatchStatusCompleted
    THEN [batch |-> b, err |-> "cannot cancel completed batch"]
    ELSE [batch |-> [b EXCEPT !.status = BatchStatusCancelled], err |-> NoError]

MarkAsDamaged(b) ==
    [batch |-> [b EXCEPT !.status = BatchStatusDamaged], err |-> NoError]

\* the first item of the order, as the pointer to the copy the loop holds, or
\* nil and the error "order ... not found in batch"
GetItemByOrderID(b, orderID) ==
    LET i == ItemIndex(b, orderID) IN
    IF i # 0
    THEN [item |-> <<b.items[i]>>, err |-> NoError]
    ELSE [item |-> <<>>, err |-> "order not found in batch"]

\* _, err := b.GetItemByOrderID(orderID); return err == nil
HasOrder(b, orderID) == GetItemByOrderID(b, orderID).err = NoError

IsEmpty(b) == Len(b.items) = 0

\* ---- driven adapter: BatchMemoryRepository ------------------------------
\* The repository is the map from batch id to the stored copy of the batch.
Save(repo, b) ==
    [id \in (DOMAIN repo) \cup {b.id} |-> IF id = b.id THEN b ELSE repo[id]]

\* the set of batches FindByID can return: empty when the id is not stored
FindByID(repo, id) == {i \in DOMAIN repo : i = id}

\* the ids of the batches FindByOrderID can return (the first match of a
\* range over the map); empty when it returns the not-found error
FindByOrderID(repo, orderID) ==
    {id \in DOMAIN repo : HasOrder(repo[id], orderID)}

\* FindPendingBatchForProduct as it would be if it never found a batch
FindPendingBatchForProduct_NotFound(repo, productID) == {}

\* FindPendingBatchForProduct as it would be with the wrong status constant
FindPendingBatchForProduct_WrongStatus(repo, productID) ==
    {id \in DOMAIN repo : /\ repo[id].productId = productID
                          /\ repo[id].status = BatchStatusProcessing}

\* the ids of the batches FindPendingBatchForProduct can return
FindPendingBatchForProduct(repo, productID) ==
    {id \in DOMAIN repo : /\ repo[id].productId = productID
                          /\ repo[id].status = BatchStatusPending}

Delete(repo, id) == [i \in (DOMAIN repo) \ {id} |-> repo[i]]

\* ---- domain: BatchEvent --------------------------------------------------
BatchEventCreated == "batch.created"
BatchEventItemAdded == "batch.item_added"
BatchEventItemRemoved == "batch.item_removed"
BatchEventItemUpdated == "batch.item_updated"
BatchEventProcessing == "batch.processing_started"
BatchEventCompleted == "batch.completed"
BatchEventCancelled == "batch.cancelled"
BatchEventDamaged == "batch.marked_damaged"

\* NewBatchEvent as it would be if the snapshot were a new, empty batch
NewBatchEvent_EmptySnapshot(eventType, b) ==
    [eventType |-> eventType, batchId |-> b.id, productId |-> b.productId,
     batch |-> NewBatch(b.id, b.productId), orderId |-> <<>>,
     itemDetails |-> <<>>]

NewBatchEvent(eventType, b) ==
    [eventType |-> eventType, batchId |-> b.id, productId |-> b.productId,
     batch |-> b, orderId |-> <<>>, itemDetails |-> <<>>]

NewBatchItemEvent(eventType, b, orderID, item) ==
    [eventType |-> eventType, batchId |-> b.id, productId |-> b.productId,
     batch |-> b, orderId |-> <<orderID>>, itemDetails |-> <<item>>]

NewBatchItemRemovedEvent(b, orderID) ==
    [eventType |-> BatchEventItemRemoved, batchId |-> b.id,
     productId |-> b.productId, batch |-> b, orderId |-> <<orderID>>,
     itemDetails |-> <<>>]

\* MockBatchEventPublisher: the events published and the ShouldFail switch
MockBatchEventPublisher(events, shouldFail) ==
    [events |-> events, shouldFail |-> shouldFail]

\* PublishBatchEvent: with ShouldFail an error is returned and nothing is
\* appended, otherwise the event is appended.  Every caller only logs the
\* error, so the publisher after the call is all a caller can see of it.
PublishBatchEvent(pub, event) ==
    IF pub.shouldFail THEN pub ELSE [pub EXCEPT !.events = Append(@, event)]

\* what the repository holds under a batch id: the stored batch, or nothing
StoredBatch(repo, id) == IF id \in DOMAIN repo THEN <<repo[id]>> ELSE <<>>

\* s.eventPublisher.PublishBatchEvent(event), called at a point of a service
\* operation where the repository is repo: a published event is noted with
\* what the repository holds of its batch at that point
PublishAt(repo, pub, event) ==
    LET after == PublishBatchEvent(pub, event) IN
    IF pub.shouldFail
    THEN after
    ELSE [after EXCEPT !.storedThen = Append(@, StoredBatch(repo, event.batchId))]

\* ---- application: BatchService -------------------------------------------
\* A service state st is [repo, pub], repository and publisher; an outcome adds the returned error and
\* the id of the batch the operation worked on ("" when it found none).
Outcome(repo, pub, err, batchId) ==
    [repo |-> repo, pub |-> pub, err |-> err, batchId |-> batchId]

Failed(st, err, batchId) == Outcome(st.repo, st.pub, err, batchId)

Timestamp(now) == ToString(now)

generateBatchID(productID, now) ==
    "BATCH-" \o productID \o "-" \o Timestamp(now)

AddOrderToBatch(st, now, orderID, productID, quantity, status) ==
    LET found == FindPendingBatchForProduct(st.repo, productID)
        isNewBatch == found = {}
        candidates ==
            IF isNewBatch
            THEN {NewBatch(generateBatchID(productID, now), productID)}
            ELSE {st.repo[id] : id \in found}
        Try(b) ==
            LET r == AddItem(b, orderID, productID, quantity, status) IN
            IF r.err # NoError
            THEN Failed(st, "failed to add order to batch", b.id)
            ELSE LET repo2 == Save(st.repo, r.batch)
                     pub1 == IF isNewBatch
                             THEN PublishAt(repo2, st.pub,
                                      NewBatchEvent(BatchEventCreated, r.batch))
                             ELSE st.pub
                     got == GetItemByOrderID(r.batch, orderID)
                     pub2 == IF got.err # NoError
                             THEN pub1
                             ELSE PublishAt(repo2, pub1,
                                      NewBatchItemEvent(BatchEventItemAdded,
                                          r.batch, orderID, got.item[1]))
                 IN Outcome(repo2, pub2, NoError, b.id)
    IN {Try(b) : b \in candidates}

RemoveOrderFromBatch(st, orderID) ==
    LET found == FindByOrderID(st.repo, orderID)
        Try(id) ==
            LET r == RemoveItem(st.repo[id], orderID) IN
            IF r.err # NoError
            THEN Failed(st, "failed to remove order from batch", id)
            ELSE LET pub1 == PublishAt(st.repo, st.pub,
                                 NewBatchItemRemovedEvent(r.batch, orderID))
                     repo2 == IF IsEmpty(r.batch)
                              THEN Delete(st.repo, id)
                              ELSE Save(st.repo, r.batch)
                 IN Outcome(repo2, pub1, NoError, id)
    IN IF found = {}
       THEN {Failed(st, "failed to find batch for order", "")}
       ELSE {Try(id) : id \in found}

\* UpdateOrderStatus as it would be if the publisher's error were returned
UpdateOrderStatus_PublishErrorReturned(st, orderID, status) ==
    LET found == FindByOrderID(st.repo, orderID)
        Try(id) ==
            LET r == UpdateItemStatus(st.repo[id], orderID, status) IN
            IF r.err # NoError
            THEN Failed(st, "failed to update order status", id)
            ELSE LET got == GetItemByOrderID(r.batch, orderID) IN
                 IF got.err # NoError
                 THEN Outcome(Save(st.repo, r.batch), st.pub, NoError, id)
                 ELSE Outcome(Save(st.repo, r.batch),
                         PublishAt(Save(st.repo, r.batch), st.pub,
                             NewBatchItemEvent(BatchEventItemUpdated, r.batch,
                                 orderID, got.item[1])),
                         IF st.pub.shouldFail
                         THEN "failed to publish batch item updated event"
                         ELSE NoError,
                         id)
    IN IF found = {}
       THEN {Failed(st, "failed to find batch for order", "")}
       ELSE {Try(id) : id \in found}

UpdateOrderStatus(st, orderID, status) ==
    LET found == FindByOrderID(st.repo, orderID)
        Try(id) ==
            LET r == UpdateItemStatus(st.repo[id], orderID, status) IN
            IF r.err # NoError
            THEN Failed(st, "failed to update order status", id)
            ELSE LET got == GetItemByOrderID(r.batch, orderID) IN
                 IF got.err # NoError
                 THEN Outcome(Save(st.repo, r.batch), st.pub, NoError, id)
                 ELSE Outcome(Save(st.repo, r.batch),
                         PublishAt(Save(st.repo, r.batch), st.pub,
                             NewBatchItemEvent(BatchEventItemUpdated, r.batch,
                                 orderID, got.item[1])),
                         NoError, id)
    IN IF found = {}
       THEN {Failed(st, "failed to find batch for order", "")}
       ELSE {Try(id) : id \in found}

\* the common shape of ProcessBatch, CompleteBatch, CancelBatch and
\* MarkBatchAsDamaged: find by id, apply the transition, save, publish
\* Transition as it would be if the event were published before the error
\* check
Transition_PublishFirst(st, batchID, r, eventType, failure) ==
    IF r.err # NoError
    THEN Outcome(st.repo,
                 PublishAt(st.repo, st.pub, NewBatchEvent(eventType, r.batch)),
                 failure, batchID)
    ELSE Outcome(Save(st.repo, r.batch),
                 PublishAt(Save(st.repo, r.batch), st.pub,
                           NewBatchEvent(eventType, r.batch)),
                 NoError, batchID)

Transition(st, batchID, r, eventType, failure) ==
    IF r.err # NoError
    THEN Failed(st, failure, batchID)
    ELSE Outcome(Save(st.repo, r.batch),
                 PublishAt(Save(st.repo, r.batch), st.pub,
                           NewBatchEvent(eventType, r.batch)),
                 NoError, batchID)

ProcessBatch(st, batchID) ==
    IF FindByID(st.repo, batchID) = {}
    THEN {Failed(st, "failed to find batch", "")}
    ELSE {Transition(st, batchID, StartProcessing(st.repo[batchID]),
                     BatchEventProcessing, "failed to start processing batch")}

CompleteBatch(st, batchID) ==
    IF FindByID(st.repo, batchID) = {}
    THEN {Failed(st, "failed to find batch", "")}
    ELSE {Transition(st, batchID, Complete(st.repo[batchID]),
                     BatchEventCompleted, "failed to complete batch")}

CancelBatch(st, batchID) ==
    IF FindByID(st.repo, batchID) = {}
    THEN {Failed(st, "failed to find batch", "")}
    ELSE {Transition(st, batchID, Cancel(st.repo[batchID]),
                     BatchEventCancelled, "failed to cancel batch")}

MarkBatchAsDamaged(st, batchID) ==
    IF FindByID(st.repo, batchID) = {}
    THEN {Failed(st, "failed to find batch", "")}
    ELSE {Transition(st, batchID, MarkAsDamaged(st.repo[batchID]),
                     BatchEventDamaged, "failed to mark batch as damaged")}

GetBatchByOrderID(st, orderID) == FindByOrderID(st.repo, orderID)

\* ---- domain: OrderEvent ---------------------------------------------------
IsWarehouseRelevant(event) ==
    event.eventType \in {"order.damage_processed", "order.created",
                         "order.cancelled", "order.shipped", "order.delivered",
                         "order.returned", "order.inventory_allocated",
                         "order.inventory_released"}

\* GetWarehouseAction as it would be with the actions of order.shipped and
\* order.delivered exchanged
GetWarehouseAction_Exchanged(event) ==
    CASE event.eventType = "order.damage_processed" -> "process_damage"
      [] event.eventType = "order.created" -> "allocate_inventory"
      [] event.eventType = "order.cancelled" -> "release_inventory"
      [] event.eventType = "order.shipped" -> "confirm_delivery"
      [] event.eventType = "order.delivered" -> "update_inventory"
      [] event.eventType = "order.returned" -> "process_return"
      [] event.eventType = "order.inventory_allocated" -> "confirm_allocation"
      [] event.eventType = "order.inventory_released" -> "confirm_release"
      [] OTHER -> "unknown"

GetWarehouseAction(event) ==
    CASE event.eventType = "order.damage_processed" -> "process_damage"
      [] event.eventType = "order.created" -> "allocate_inventory"
      [] event.eventType = "order.cancelled" -> "release_inventory"
      [] event.eventType = "order.shipped" -> "update_inventory"
      [] event.eventType = "order.delivered" -> "confirm_delivery"
      [] event.eventType = "order.returned" -> "process_return"
      [] event.eventType = "order.inventory_allocated" -> "confirm_allocation"
      [] event.eventType = "order.inventory_released" -> "confirm_release"
      [] OTHER -> "unknown"

\* ---- application: OrderService -------------------------------------------
\* the outcome of a call whose error the handler only logs
Logged(r, batchId) == [r EXCEPT !.err = NoError, !.batchId = batchId]

\* "try to update the order status in its batch, if not found create a new
\* batch": the shape shared by the three damage cases
UpdateOrAdd(st, now, event, status) ==
    UNION {IF r1.err = NoError
           THEN {r1}
           ELSE AddOrderToBatch(r1, now, event.orderId, event.order.productId,
                                event.order.quantity, status)
           : r1 \in UpdateOrderStatus(st, event.orderId, status)}

processDamageMajor(st, now, event) ==
    UNION {IF r1.err # NoError
           THEN UNION {IF r2.err # NoError
                       THEN {r2}
                       ELSE {Logged(r3, r2.batchId)
                             : r3 \in MarkBatchAsDamaged(r2, r2.batchId)}
                       : r2 \in AddOrderToBatch(r1, now, event.orderId,
                                    event.order.productId, event.order.quantity,
                                    "damage_major")}
           ELSE IF GetBatchByOrderID(r1, event.orderId) = {}
           THEN {r1}
           ELSE UNION {{Logged(r3, r1.batchId) : r3 \in MarkBatchAsDamaged(r1, id)}
                       : id \in GetBatchByOrderID(r1, event.orderId)}
           : r1 \in UpdateOrderStatus(st, event.orderId, "damage_major")}

\* processDamage as it would be if the default case fell into the major case
processDamage_DefaultMajor(st, now, event) ==
    CASE event.order.status = "damage_detected_minor" ->
             UpdateOrAdd(st, now, event, "damage_minor")
      [] event.order.status = "damage_processed" ->
             UpdateOrAdd(st, now, event, "damage_processed")
      [] OTHER -> processDamageMajor(st, now, event)

processDamage(st, now, event) ==
    CASE event.order.status = "damage_detected_minor" ->
             UpdateOrAdd(st, now, event, "damage_minor")
      [] event.order.status = "damage_detected_major" ->
             processDamageMajor(st, now, event)
      [] event.order.status = "damage_processed" ->
             UpdateOrAdd(st, now, event, "damage_processed")
      [] OTHER -> {Failed(st, NoError, "")}

allocateInventory(st, now, event) ==
    AddOrderToBatch(st, now, event.orderId, event.order.productId,
                    event.order.quantity, "allocated")

releaseInventory(st, event) == RemoveOrderFromBatch(st, event.orderId)

updateInventory(st, event) == UpdateOrderStatus(st, event.orderId, "shipped")

confirmDelivery(st, event) == UpdateOrderStatus(st, event.orderId, "delivered")

\* processReturn as it would be with the return item added before the status
\* update of the order
processReturn_AddFirst(st, now, event) ==
    UNION {IF r1.err # NoError
           THEN {r1}
           ELSE UpdateOrderStatus(r1, event.orderId, "returned")
           : r1 \in AddOrderToBatch(st, now, event.orderId \o "-return",
                                    event.order.productId, event.order.quantity,
                                    "returned")}

processReturn(st, now, event) ==
    UNION {IF r1.err # NoError
           THEN {r1}
           ELSE AddOrderToBatch(r1, now, event.orderId \o "-return",
                                event.order.productId, event.order.quantity,
                                "returned")
           : r1 \in UpdateOrderStatus(st, event.orderId, "returned")}

confirmAllocation(st, event) ==
    UpdateOrderStatus(st, event.orderId, "allocation_confirmed")

confirmRelease(st, event) ==
    UpdateOrderStatus(st, event.orderId, "release_confirmed")

HandleOrderEvent(st, now, event) ==
    IF ~IsWarehouseRelevant(event)
    THEN {Failed(st, NoError, "")}
    ELSE LET action == GetWarehouseAction(event) IN
         CASE action = "process_damage" -> processDamage(st, now, event)
           [] action = "allocate_inventory" -> allocateInventory(st, now, event)
           [] action = "release_inventory" -> releaseInventory(st, event)
           [] action = "update_inventory" -> updateInventory(st, event)
           [] action = "confirm_delivery" -> confirmDelivery(st, event)
           [] action = "process_return" -> processReturn(st, now, event)
           [] action = "confirm_allocation" -> confirmAllocation(st, event)
           [] action = "confirm_release" -> confirmRelease(st, event)
           [] OTHER -> {Failed(st, "unknown warehouse action", "")}

\* ---- inputs: the order events and calls the service is given --------------
OrderEvent(eventType, orderID, productID, quantity, status) ==
    [eventType |-> eventType, orderId |-> orderID,
     order |-> [id |-> orderID, productId |-> productID,
                quantity |-> quantity, status |-> status]]

\* Events whose handler reads the order snapshot carry every product; the
\* quantity varies on order.created, the event that states it first.  For the
\* events whose handler reads the order id only, one snapshot stands for all.
\* The handlers that differ from another one by the item status they pass only
\* (damage_processed from damage_detected_minor, inventory_allocated and
\* inventory_released from shipped) get fewer events, as do the damage
\* statuses that processDamage ignores and the event type the warehouse does
\* not handle.
OrderEvents ==
    {OrderEvent("order.created", o, p, 1, "confirmed")
        : o \in OrderIds, p \in ProductIds}
    \cup {OrderEvent("order.created", "o1", p, q, "confirmed")
        : p \in ProductIds, q \in Quantities}
    \cup {OrderEvent("order.damage_processed", o, "p1", 1, s)
        : o \in OrderIds,
          s \in {"damage_detected_minor", "damage_detected_major"}}
    \cup {OrderEvent("order.damage_processed", o, "p2", 1, "damage_detected_minor")
        : o \in OrderIds}
    \cup {OrderEvent("order.damage_processed", o, "p1", 1, "damage_processed")
        : o \in OrderIds}
    \cup {OrderEvent("order.damage_processed", "o1", "p1", 1, s)
        : s \in {"cancelled_damage", "damage_detected_unknown"}}
    \cup {OrderEvent("order.returned", o, "p1", 1, "returned")
        : o \in OrderIds}
    \cup {OrderEvent("order.returned", "o1", "p2", 1, "returned")}
    \cup {OrderEvent(t, o, "p1", 1, "confirmed")
        : t \in {"order.cancelled", "order.shipped", "order.delivered"},
          o \in OrderIds}
    \cup {OrderEvent(t, "o1", "p1", 1, "confirmed")
        : t \in {"order.inventory_allocated", "order.inventory_released",
                 "order.payment_processed"}}

NoEvent == OrderEvent("", "", "", 0, "")

\* an id no batch is stored under
UnknownBatchId == "BATCH-none"

\* the batch ids a caller of the service can name: the stored ones and one
\* that is not stored
BatchIds(repo) == (DOMAIN repo) \cup {UnknownBatchId}

\* ---- driven adapter: BatchEventPublisherAdapter (Kafka) ---------------------
\* An error is its message, a sequence of characters; nil is the empty one.
NilError == <<>>

UpperCase ==
    <<"A", "B", "C", "D", "E", "F", "G", "H", "I", "J", "K", "L", "M",
      "N", "O", "P", "Q", "R", "S", "T", "U", "V", "W", "X", "Y", "Z">>

LowerCase ==
    <<"a", "b", "c", "d", "e", "f", "g", "h", "i", "j", "k", "l", "m",
      "n", "o", "p", "q", "r", "s", "t", "u", "v", "w", "x", "y", "z">>

\* strings.ToLower: every character is mapped by unicode.ToLower.  The
\* characters of more than one byte are named by their code points; of those
\* the Kelvin sign, the dotted capital I and the capital E with acute have a
\* lower case, k, i and U+00E9, and the long s and U+00E9 are their own.
ToLower(s) ==
    [i \in 1..Len(s) |->
        CASE \E k \in 1..26 : UpperCase[k] = s[i] ->
                 LowerCase[CHOOSE k \in 1..26 : UpperCase[k] = s[i]]
          [] s[i] = "U+212A" -> "k"
          [] s[i] = "U+0130" -> "i"
          [] s[i] = "U+00C9" -> "U+00E9"
          [] OTHER -> s[i]]

\* strings.Contains
Contains(s, sub) ==
    \E i \in 1..(Len(s) - Len(sub) + 1) : SubSeq(s, i, i + Len(sub) - 1) = sub

PatternCode3 ==
    <<"[", "3", "]", " ", "u", "n", "k", "n", "o", "w", "n", " ", "t", "o",
      "p", "i", "c", " ", "o", "r", " ", "p", "a", "r", "t", "i", "t", "i",
      "o", "n">>

PatternName ==
    <<"u", "n", "k", "n", "o", "w", "n", "t", "o", "p", "i", "c", "o", "r",
      "p", "a", "r", "t", "i", "t", "i", "o", "n">>

PatternPlain ==
    <<"u", "n", "k", "n", "o", "w", "n", " ", "t", "o", "p", "i", "c", " ",
      "o", "r", " ", "p", "a", "r", "t", "i", "t", "i", "o", "n">>

PatternDoesNotExist ==
    <<"t", "o", "p", "i", "c", " ", "o", "r", " ", "p", "a", "r", "t", "i",
      "t", "i", "o", "n", " ", "t", "h", "a", "t", " ", "d", "o", "e", "s",
      " ", "n", "o", "t", " ", "e", "x", "i", "s", "t">>

\* isUnknownTopicOrPartitionError as it would be if every error matched
isUnknownTopicOrPartitionError_AnyError(err) == err # NilError

isUnknownTopicOrPartitionError(err) ==
    IF err = NilError
    THEN FALSE
    ELSE LET errStr == ToLower(err)
         IN \/ Contains(errStr, PatternCode3)
            \/ Contains(errStr, PatternName)
            \/ Contains(errStr, PatternPlain)
            \/ Contains(errStr, PatternDoesNotExist)

\* the errors a write to the broker is given to fail with

ErrUnknownTopicCode3 ==
    <<"[", "3", "]", " ", "U", "n", "k", "n", "o", "w", "n", " ", "T", "o",
      "p", "i", "c", " ", "O", "r", " ", "P", "a", "r", "t", "i", "t", "i",
      "o", "n", ":", " ", "t", "h", "e", " ", "r", "e", "q", "u", "e", "s",
      "t", " ", "i", "s", " ", "f", "o", "r", " ", "a", " ", "t", "o", "p",
      "i", "c", " ", "o", "r", " ", "p", "a", "r", "t", "i", "t", "i", "o",
      "n", " ", "t", "h", "a", "t", " ", "d", "o", "e", "s", " ", "n", "o",
      "t", " ", "e", "x", "i", "s", "t", " ", "o", "n", " ", "t", "h", "i",
      "s", " ", "b", "r", "o", "k", "e", "r">>

ErrUnknownTopicName ==
    <<"k", "a", "f", "k", "a", ":", " ", "U", "n", "k", "n", "o", "w", "n",
      "T", "o", "p", "i", "c", "O", "r", "P", "a", "r", "t", "i", "t", "i",
      "o", "n">>

ErrUnknownTopicPlain ==
    <<"u", "n", "k", "n", "o", "w", "n", " ", "t", "o", "p", "i", "c", " ",
      "o", "r", " ", "p", "a", "r", "t", "i", "t", "i", "o", "n">>

\* the plain text written with the Kelvin sign and the dotted capital I
ErrUnknownTopicKelvin ==
    <<"u", "n", "U+212A", "n", "o", "w", "n", " ", "t", "o", "p", "U+0130",
      "c", " ", "o", "r", " ", "p", "a", "r", "t", "i", "t", "i", "o", "n">>

\* a text that no lowering turns into one of the patterns
ErrUnknownTopicAccent ==
    <<"u", "n", "k", "n", "o", "w", "n", " ", "t", "o", "p", "i", "c", " ",
      "o", "r", " ", "p", "a", "r", "t", "i", "t", "i", "U+00C9", "n">>

ErrTopicDoesNotExist ==
    <<"t", "o", "p", "i", "c", " ", "o", "r", " ", "p", "a", "r", "t", "i",
      "t", "i", "o", "n", " ", "t", "h", "a", "t", " ", "d", "o", "e", "s",
      " ", "n", "o", "t", " ", "e", "x", "i", "s", "t">>

ErrConnectionRefused ==
    <<"c", "o", "n", "n", "e", "c", "t", "i", "o", "n", " ", "r", "e", "f",
      "u", "s", "e", "d">>

ErrOffsetOutOfRange ==
    <<"[", "1", "]", " ", "O", "f", "f", "s", "e", "t", "O", "u", "t", "O",
      "f", "R", "a", "n", "g", "e">>

WriteErrors ==
    {ErrUnknownTopicCode3, ErrUnknownTopicName, ErrUnknownTopicPlain,
     ErrUnknownTopicKelvin, ErrUnknownTopicAccent, ErrTopicDoesNotExist,
     ErrConnectionRefused, ErrOffsetOutOfRange}

\* the prefixes fmt.Errorf wraps a write error in

FailedToWrite ==
    <<"f", "a", "i", "l", "e", "d", " ", "t", "o", " ", "w", "r", "i", "t",
      "e", " ", "b", "a", "t", "c", "h", " ", "e", "v", "e", "n", "t", " ",
      "t", "o", " ", "K", "a", "f", "k", "a", ":", " ">>

FailedAfterRetry ==
    <<"f", "a", "i", "l", "e", "d", " ", "t", "o", " ", "w", "r", "i", "t",
      "e", " ", "b", "a", "t", "c", "h", " ", "e", "v", "e", "n", "t", " ",
      "t", "o", " ", "K", "a", "f", "k", "a", " ", "a", "f", "t", "e", "r",
      " ", "r", "e", "t", "r", "y", ":", " ">>

BrokerAddress == "localhost:9092"

Topic == "warehouse-batch-events"

\* kafka.Writer: the address and topic it writes to, and whether it is closed
NewWriter(brokerAddress, topic) ==
    [addr |-> brokerAddress, topic |-> topic, closed |-> FALSE]

\* The adapter p holds its topic and broker address, the writer objects it
\* has created (p.writers) and which of them is the current one (p.writer).
NewBatchEventPublisherAdapter(brokerAddress, topic) ==
    [writers |-> <<NewWriter(brokerAddress, topic)>>, writer |-> 1,
     topic |-> topic, brokerAddress |-> brokerAddress]

\* p.writer.Close()
CloseWriter(p) == [p EXCEPT !.writers[p.writer].closed = TRUE]

\* recreateWriter as it would be if it kept the old writer
recreateWriter_SameWriter(p) == p

recreateWriter(p) ==
    [p EXCEPT !.writers = Append(@, NewWriter(p.brokerAddress, p.topic)),
              !.writer = Len(p.writers) + 1]

\* the Kafka message of an event: keyed by the batch id, the event as value,
\* the order_id header only when the event has an order id (the timestamp
\* header is not kept)
KafkaMessage(event) ==
    [key |-> event.batchId, value |-> event,
     headers |->
        <<[key |-> "event_type", value |-> event.eventType],
          [key |-> "batch_id", value |-> event.batchId],
          [key |-> "product_id", value |-> event.productId]>>
        \o (IF event.orderId # <<>>
            THEN <<[key |-> "order_id", value |-> event.orderId[1]]>>
            ELSE <<>>)]

\* ---- state machine ----------------------------------------------------------
\* the service over the stored batches and a publisher holding the events
\* published so far
ServiceState(shouldFail) ==
    [repo |-> batches,
     pub |-> MockBatchEventPublisher(published, shouldFail)
             @@ [storedThen |-> storedAtPublish]]

\* the publisher as NewMockBatchEventPublisher constructs it
State == ServiceState(FALSE)

Called(op, event, batchId, r) ==
    /\ batches' = r.repo
    /\ published' = r.pub.events
    /\ storedAtPublish' = r.pub.storedThen
    /\ last' = [op |-> op, event |-> event, batchId |-> batchId, err |-> r.err]
    /\ calls' = calls + 1
    /\ offset' = IF op = "HandleOrderEvent" THEN offset + 1 ELSE offset
    /\ UNCHANGED clock
    /\ UNCHANGED <<publisherVars, aggregatorVars, detectorVars, built, simulatorVars, processVars,
                   twinVars, memoryVars, queueVars, mqttVars>>

Init ==
    /\ batches = <<>>
    /\ published = <<>>
    /\ storedAtPublish = <<>>
    /\ clock = 0
    /\ calls = 0
    /\ offset = 0
    /\ last = [op |-> "init", event |-> NoEvent, batchId |-> "", err |-> NoError]
    /\ publisher = NewBatchEventPublisherAdapter(BrokerAddress, Topic)
    /\ publishing = [pc |-> "idle", message |-> <<>>, attempts |-> <<>>,
                     err |-> NilError, logged |-> 0, calls |-> 0]
    /\ kafkaLog = <<>>
    /\ orders = <<>>
    /\ orderPublished = <<>>
    /\ delivery = [n |-> 0, pc |-> "select", body |-> <<>>, now |-> 0,
                   handler |-> "", call |-> <<>>, publishes |-> <<>>,
                   err |-> NoError, settled |-> <<>>]
    /\ api = [updates |-> 0, create |-> <<>>, update |-> <<>>,
              err |-> NoError]
    /\ eventStore = <<>>
    /\ orderPublisher = <<>>
    /\ handling = [n |-> 0, started |-> FALSE, pc |-> "idle",
                   payload |-> <<>>, event |-> <<>>, attempts |-> <<>>,
                   err |-> NoError]
    /\ built = <<>>
    /\ MinTemperature = DefaultMinTemperature
    /\ MaxTemperature = DefaultMaxTemperature
    /\ handlers = <<>>
    /\ generator = [pc |-> "idle", lowerLimit |-> 0, events |-> <<>>]
    /\ consumer = [pc |-> "select", msg |-> <<>>, handled |-> 0,
                   attempts |-> 0, onClosed |-> 0, pending |-> <<>>,
                   saved |-> FALSE, result |-> <<>>]
    /\ shutdown = [cancelled |-> FALSE, closed |-> FALSE, exited |-> FALSE,
                   restarts |-> 0]
    /\ twin = [a |-> [repo |-> <<>>, types |-> <<>>, now |-> 0],
               b |-> [repo |-> <<>>, types |-> <<>>, now |-> 0],
               handled |-> 0]
    /\ memory = [batches |-> <<>>, held |-> <<>>, cells |-> <<>>]
    /\ queue = [ready |-> <<>>, unacked |-> <<>>, buffer |-> <<>>,
                inHand |-> <<>>, settled |-> <<>>, published |-> 0,
                lost |-> 0, connected |-> TRUE, consuming |-> TRUE]
    /\ mqttPublisher = [calls |-> <<>>, topic |-> <<>>]

\* OrderEventConsumerAdapter.Start, one turn of the loop: the next message of
\* the topic is read and handed to OrderService.HandleOrderEvent; an error is
\* logged and the loop goes on
Consume ==
    /\ calls < MaxCalls
    /\ \E event \in OrderEvents :
         \E r \in HandleOrderEvent(State, clock, event) :
            Called("HandleOrderEvent", event, r.batchId, r)

\* AddOrderToBatch and RemoveOrderFromBatch are called by the handlers of
\* order.created and order.cancelled with the event's arguments and their
\* result is the handler's result.  UpdateOrderStatus is also called directly,
\* with the status the service's own tests give it, which no handler passes.
CallUpdateOrderStatus ==
    /\ calls < MaxCalls
    /\ \E o \in OrderIds : \E r \in UpdateOrderStatus(State, o, "processed") :
          Called("UpdateOrderStatus", OrderEvent("", o, "", 0, "processed"),
                 r.batchId, r)

CallProcessBatch ==
    /\ calls < MaxCalls
    /\ \E id \in BatchIds(batches) : \E r \in ProcessBatch(State, id) :
          Called("ProcessBatch", NoEvent, id, r)

CallCompleteBatch ==
    /\ calls < MaxCalls
    /\ \E id \in BatchIds(batches) : \E r \in CompleteBatch(State, id) :
          Called("CompleteBatch", NoEvent, id, r)

CallCancelBatch ==
    /\ calls < MaxCalls
    /\ \E id \in BatchIds(batches) : \E r \in CancelBatch(State, id) :
          Called("CancelBatch", NoEvent, id, r)

CallMarkBatchAsDamaged ==
    /\ calls < MaxCalls
    /\ \E id \in BatchIds(batches) : \E r \in MarkBatchAsDamaged(State, id) :
          Called("MarkBatchAsDamaged", NoEvent, id, r)

\* one second of wall-clock time passes between two operations; the clock
\* counts the seconds since the first one, at most one for each operation
\* made
Tick ==
    /\ calls < MaxCalls
    /\ clock < MaxClock /\ clock < calls
    /\ clock' = clock + 1
    /\ UNCHANGED <<batches, published, storedAtPublish, calls, last, offset>>
    /\ UNCHANGED <<publisherVars, aggregatorVars, detectorVars, built, simulatorVars, processVars,
                   twinVars, memoryVars, queueVars, mqttVars>>

Next ==
    \/ Consume
    \/ CallUpdateOrderStatus
    \/ CallProcessBatch
    \/ CallCompleteBatch
    \/ CallCancelBatch
    \/ CallMarkBatchAsDamaged
    \/ Tick

Spec == Init /\ [][Next]_vars

\* ---- state machine of the publisher adapter ----------------------------------
\* the batch events handed to the adapter: one without and one with an order
PublishableEvents ==
    LET b0 == NewBatch(generateBatchID("p1", 0), "p1")
        b1 == AddItem(b0, "o1", "p1", 1, "allocated").batch
    IN {NewBatchEvent(BatchEventCreated, b1),
        NewBatchItemEvent(BatchEventItemAdded, b1, "o1",
                          GetItemByOrderID(b1, "o1").item[1])}

\* what p.writer.WriteMessages can return
WriteResults == {NilError} \cup WriteErrors

\* one write attempt: the writer used and the error it returned
Attempt(p, err) == [writer |-> p.writer, err |-> err]

\* the broker takes the message of a write that returns nil
Written(log, p, message, err) ==
    IF err = NilError
    THEN Append(log, [writer |-> p.writer, message |-> message])
    ELSE log

\* PublishBatchEvent up to the first write: it returns nil, or the wrapped
\* error, or goes on to recover from an unknown topic or partition
AdapterPublishBatchEvent ==
    /\ publishing.pc = "idle"
    /\ publishing.calls < MaxPublishes
    /\ \E event \in PublishableEvents, err \in WriteResults :
          LET message == KafkaMessage(event) IN
          /\ kafkaLog' = Written(kafkaLog, publisher, message, err)
          /\ publishing' =
                [pc |-> IF isUnknownTopicOrPartitionError(err)
                        THEN "recreate" ELSE "idle",
                 message |-> <<message>>,
                 attempts |-> <<Attempt(publisher, err)>>,
                 err |-> IF err = NilError \/ isUnknownTopicOrPartitionError(err)
                         THEN NilError ELSE FailedToWrite \o err,
                 logged |-> Len(kafkaLog),
                 calls |-> publishing.calls + 1]
    /\ UNCHANGED publisher
    /\ UNCHANGED <<serviceVars, aggregatorVars, detectorVars, built, simulatorVars, processVars,
                   twinVars, memoryVars, queueVars, mqttVars>>

\* the old writer is closed and recreateWriter installs a new one
AdapterRecreateWriter ==
    /\ publishing.pc = "recreate"
    /\ publisher' = recreateWriter(CloseWriter(publisher))
    /\ publishing' = [publishing EXCEPT !.pc = "retry"]
    /\ UNCHANGED kafkaLog
    /\ UNCHANGED <<serviceVars, aggregatorVars, detectorVars, built, simulatorVars, processVars,
                   twinVars, memoryVars, queueVars, mqttVars>>

\* after the wait the same message is written with the current writer, and
\* PublishBatchEvent returns nil or the wrapped error of the retry
AdapterRetry ==
    /\ publishing.pc = "retry"
    /\ \E err \in WriteResults :
          /\ kafkaLog' = Written(kafkaLog, publisher, publishing.message[1], err)
          /\ publishing' =
                [publishing EXCEPT
                    !.pc = "idle",
                    !.attempts = Append(@, Attempt(publisher, err)),
                    !.err = IF err = NilError
                            THEN NilError ELSE FailedAfterRetry \o err]
    /\ UNCHANGED publisher
    /\ UNCHANGED <<serviceVars, aggregatorVars, detectorVars, built, simulatorVars, processVars,
                   twinVars, memoryVars, queueVars, mqttVars>>

PublisherNext ==
    \/ AdapterPublishBatchEvent
    \/ AdapterRecreateWriter
    \/ AdapterRetry

PublisherSpec == Init /\ [][PublisherNext]_vars

\* ---- properties --------------------------------------------------------------
\* the step is a call of the service (and not the passing of time)
IsCall == calls' = calls + 1

IsOrderEvent(eventType) ==
    /\ IsCall
    /\ last'.op = "HandleOrderEvent"
    /\ last'.event.eventType = eventType

\* the step is RemoveOrderFromBatch, called for order.cancelled
IsRemove == IsOrderEvent("order.cancelled")

OrderIdsOf(b) == [i \in 1..Len(b.items) |-> b.items[i].orderId]

PendingOf(repo, p) ==
    {id \in DOMAIN repo : repo[id].productId = p /\ repo[id].status = "pending"}

\* C1: for every product the repository holds at most one batch of that
\* product with status pending.
C1_OnePendingBatchPerProduct ==
    \A p \in ProductIds : Cardinality(PendingOf(batches, p)) <= 1

\* an order was added for a product that has a pending batch and also an
\* older batch that is no longer pending
C1_Witness ==
    /\ last.op = "HandleOrderEvent"
    /\ last.event.eventType = "order.created"
    /\ last.err = NoError
    /\ \E a \in DOMAIN batches, b \in DOMAIN batches :
          /\ a # b
          /\ batches[a].productId = batches[b].productId
          /\ batches[a].status = "pending"
          /\ batches[b].status # "pending"
          /\ last.batchId = a

PermittedTransitions ==
    {<<"pending", "processing">>, <<"pending", "cancelled">>,
     <<"pending", "damaged">>, <<"processing", "completed">>,
     <<"processing", "cancelled">>, <<"processing", "damaged">>,
     <<"completed", "damaged">>, <<"cancelled", "damaged">>}

\* C2: a ProcessBatch, CompleteBatch, CancelBatch or MarkBatchAsDamaged call
\* changes the status of its batch only along a permitted transition (so a
\* damaged batch keeps its status), and a call that returns an error leaves
\* the status as it was.
C2_OnlyPermittedTransitions ==
    [][( /\ IsCall
         /\ last'.op \in {"ProcessBatch", "CompleteBatch", "CancelBatch",
                          "MarkBatchAsDamaged"}
         /\ last'.batchId \in DOMAIN batches )
       => /\ last'.batchId \in DOMAIN batches'
          /\ \/ batches'[last'.batchId].status = batches[last'.batchId].status
             \/ /\ last'.err = NoError
                /\ <<batches[last'.batchId].status,
                     batches'[last'.batchId].status>> \in PermittedTransitions
      ]_vars

\* C3: a batch that is completed or cancelled stays stored with the very same
\* items (the same sequence, every field of every item) whatever operation
\* follows.
C3_TerminalBatchItemsFrozen ==
    [][\A id \in DOMAIN batches :
          batches[id].status \in {"completed", "cancelled"}
          => /\ id \in DOMAIN batches'
             /\ batches'[id].items = batches[id].items
      ]_vars

\* C4: an attempt to remove an item from a batch whose status is damaged
\* returns an error and leaves the batch stored with the same items.  (An
\* addition never reaches a stored damaged batch: AddOrderToBatch adds to the
\* pending batch of the product or to a new batch.)
C4_DamagedBatchRejectsRemove ==
    [][( /\ IsRemove
         /\ last'.batchId \in DOMAIN batches
         /\ batches[last'.batchId].status = "damaged" )
       => /\ last'.err # NoError
          /\ last'.batchId \in DOMAIN batches'
          /\ OrderIdsOf(batches'[last'.batchId]) = OrderIdsOf(batches[last'.batchId])
      ]_vars

\* C5: removing the last item of a completed, cancelled or damaged batch does
\* not delete the batch: it is still stored after the removal.
C5_TerminalBatchNeverDeleted ==
    [][( /\ IsRemove
         /\ last'.batchId \in DOMAIN batches
         /\ batches[last'.batchId].status \in {"completed", "cancelled", "damaged"}
         /\ Len(batches[last'.batchId].items) = 1 )
       => last'.batchId \in DOMAIN batches'
      ]_vars

\* C6: removing the only item of a pending or processing batch deletes the
\* batch: afterwards its id is not stored and no batch of that product
\* contains the order.
C6_LastItemRemovalDeletesBatch ==
    [][( /\ IsRemove
         /\ last'.err = NoError
         /\ last'.batchId \in DOMAIN batches
         /\ batches[last'.batchId].status \in {"pending", "processing"}
         /\ Len(batches[last'.batchId].items) = 1 )
       => /\ last'.batchId \notin DOMAIN batches'
          /\ \A id \in DOMAIN batches' :
                batches'[id].productId = batches[last'.batchId].productId
                => last'.event.orderId \notin
                      {batches'[id].items[i].orderId : i \in 1..Len(batches'[id].items)}
      ]_vars

WellFormed(b) ==
    /\ b.totalItems = Len(b.items)
    /\ \A i \in 1..Len(b.items) : b.items[i].productId = b.productId

\* C7: every stored batch, and every batch a service operation hands out (the
\* snapshot of each published event), has totalItems equal to the number of
\* its items, and every item has the product id of its batch.
C7_BatchWellFormed ==
    /\ \A id \in DOMAIN batches : WellFormed(batches[id])
    /\ \A k \in 1..Len(published) : WellFormed(published[k].batch)

\* an item was removed from a batch that keeps another item
C7_Witness ==
    /\ last.op = "HandleOrderEvent"
    /\ last.event.eventType = "order.cancelled"
    /\ last.err = NoError
    /\ \E k \in 1..Len(published) :
          /\ published[k].eventType = "batch.item_removed"
          /\ Len(published[k].batch.items) = 1
    /\ \E id \in DOMAIN batches : Len(batches[id].items) >= 1

ItemStatusIn(repo, id, orderID, status) ==
    \E i \in 1..Len(repo[id].items) :
        /\ repo[id].items[i].orderId = orderID
        /\ repo[id].items[i].status = status

\* C8: after an order.damage_processed event with order status
\* damage_detected_major is handled, some batch holds the order with item
\* status damage_major and that batch has status damaged.
C8_MajorDamageMarksContainingBatch ==
    [][( /\ IsOrderEvent("order.damage_processed")
         /\ last'.event.order.status = "damage_detected_major" )
       => \E id \in DOMAIN batches' :
             /\ ItemStatusIn(batches', id, last'.event.orderId, "damage_major")
             /\ batches'[id].status = "damaged"
      ]_vars

DamageItemStatus(orderStatus) ==
    IF orderStatus = "damage_detected_minor" THEN "damage_minor" ELSE "damage_processed"

\* C9: after an order.damage_processed event with order status
\* damage_detected_minor (resp. damage_processed) is handled, some batch holds
\* the order with item status damage_minor (resp. damage_processed), and every
\* batch that holds the order has the status it had before the handling.
C9_MinorDamageKeepsBatchStatus ==
    [][( /\ IsOrderEvent("order.damage_processed")
         /\ last'.event.order.status \in {"damage_detected_minor", "damage_processed"} )
       => /\ \E id \in DOMAIN batches' :
                ItemStatusIn(batches', id, last'.event.orderId,
                             DamageItemStatus(last'.event.order.status))
          /\ \A id \in (DOMAIN batches') \cap (DOMAIN batches) :
                (\E i \in 1..Len(batches'[id].items) :
                     batches'[id].items[i].orderId = last'.event.orderId)
                => batches'[id].status = batches[id].status
      ]_vars

\* C10: handling an order.damage_processed event whose order status is none of
\* damage_detected_minor, damage_detected_major, damage_processed leaves the
\* repository and the sequence of published events unchanged.
C10_UnknownDamageStatusNoEffect ==
    [][( /\ IsOrderEvent("order.damage_processed")
         /\ last'.event.order.status \notin
               {"damage_detected_minor", "damage_detected_major", "damage_processed"} )
       => /\ batches' = batches
          /\ published' = published
          /\ last'.err = NoError
      ]_vars

\* a cancelled_damage event was handled for an order that is in a batch
C10_Witness ==
    /\ last.op = "HandleOrderEvent"
    /\ last.event.eventType = "order.damage_processed"
    /\ last.event.order.status = "cancelled_damage"
    /\ \E id \in DOMAIN batches :
          \E i \in 1..Len(batches[id].items) :
              batches[id].items[i].orderId = last.event.orderId

\* the dispatch table of the warehouse: the handler of each of the eight
\* order event types
EventTypesHandled ==
    {"order.created", "order.cancelled", "order.shipped", "order.delivered",
     "order.returned", "order.damage_processed", "order.inventory_allocated",
     "order.inventory_released"}

HandlerOf(st, now, event) ==
    CASE event.eventType = "order.created" -> allocateInventory(st, now, event)
      [] event.eventType = "order.cancelled" -> releaseInventory(st, event)
      [] event.eventType = "order.shipped" -> updateInventory(st, event)
      [] event.eventType = "order.delivered" -> confirmDelivery(st, event)
      [] event.eventType = "order.returned" -> processReturn(st, now, event)
      [] event.eventType = "order.damage_processed" -> processDamage(st, now, event)
      [] event.eventType = "order.inventory_allocated" -> confirmAllocation(st, event)
      [] event.eventType = "order.inventory_released" -> confirmRelease(st, event)

\* C11: HandleOrderEvent gives an event of one of the eight handled types to
\* the handler of that type (the step is an outcome of that handler); an event
\* of any other type returns no error and leaves the repository and the
\* published events unchanged.
C11_DispatchesEightEventTypes ==
    [][( /\ IsCall
         /\ last'.op = "HandleOrderEvent" )
       => IF last'.event.eventType \in EventTypesHandled
          THEN \E r \in HandlerOf(State, clock, last'.event) :
                  /\ batches' = r.repo
                  /\ published' = r.pub.events
                  /\ last'.err = r.err
          ELSE /\ batches' = batches
               /\ published' = published
               /\ last'.err = NoError
      ]_vars

\* an event of a type that is not handled arrived for an order that is in a
\* stored batch
C11_Witness ==
    /\ last.op = "HandleOrderEvent"
    /\ last.event.eventType \notin EventTypesHandled
    /\ last.err = NoError
    /\ \E id \in DOMAIN batches : HasOrder(batches[id], last.event.orderId)

\* the number of published events of this type
CountEvents(pub, eventType) ==
    Cardinality({k \in 1..Len(pub) : pub[k].eventType = eventType})

\* C12: an order.created event for a product that has a pending batch adds
\* the order to that batch: no batch id is new, the batch worked on is the
\* pending batch of the product and holds the order, and the one event
\* published is batch.item_added.  So when the first two events are
\* order.created with distinct order ids and the same product, there is then
\* exactly one batch, it is pending and has two items, and the published
\* events are one batch.created and two batch.item_added.
C12_AddsToPendingBatch ==
    [][IsOrderEvent("order.created")
       => /\ PendingOf(batches, last'.event.order.productId) # {}
             => /\ last'.err = NoError
                /\ DOMAIN batches' = DOMAIN batches
                /\ last'.batchId \in PendingOf(batches, last'.event.order.productId)
                /\ HasOrder(batches'[last'.batchId], last'.event.orderId)
                /\ Len(published') = Len(published) + 1
                /\ published'[Len(published')].eventType = BatchEventItemAdded
                /\ published'[Len(published')].batchId = last'.batchId
          /\ ( /\ calls = 1
               /\ last.op = "HandleOrderEvent"
               /\ last.event.eventType = "order.created"
               /\ last.event.orderId # last'.event.orderId
               /\ last.event.order.productId = last'.event.order.productId )
             => /\ Cardinality(DOMAIN batches') = 1
                /\ \A id \in DOMAIN batches' :
                      /\ batches'[id].status = BatchStatusPending
                      /\ batches'[id].productId = last'.event.order.productId
                      /\ OrderIdsOf(batches'[id])
                            = <<last.event.orderId, last'.event.orderId>>
                /\ Len(published') = 3
                /\ CountEvents(published', BatchEventCreated) = 1
                /\ CountEvents(published', BatchEventItemAdded) = 2
      ]_vars

\* two order.created events with distinct orders and the same product were
\* the first two events, a second passing between them
C12_Witness ==
    /\ calls = 2
    /\ clock = 1
    /\ last.op = "HandleOrderEvent"
    /\ last.event.eventType = "order.created"
    /\ \E id \in DOMAIN batches :
          /\ Len(batches[id].items) = 2
          /\ \A i \in 1..2 : batches[id].items[i].status = "allocated"
          /\ id = generateBatchID(last.event.order.productId, 0)
    /\ CountEvents(published, BatchEventItemAdded) = 2

\* C13: AddOrderToBatch called twice in a row with identical arguments (the
\* same order.created event handled twice, whatever time passes between)
\* leaves the repository as it was after the first call: the same batches,
\* each with the same status, items, quantities, item statuses and totalItems.
C13_AddOrderToBatchIdempotent ==
    [][( /\ IsOrderEvent("order.created")
         /\ last.op = "HandleOrderEvent"
         /\ last.event = last'.event )
       => /\ batches' = batches
          /\ last'.err = last.err
          /\ last'.batchId = last.batchId
      ]_vars

\* the same order.created event was handled twice in a row: the last two
\* published events report the addition of its order to the same batch
C13_Witness ==
    /\ last.op = "HandleOrderEvent"
    /\ last.event.eventType = "order.created"
    /\ last.err = NoError
    /\ Len(published) >= 3
    /\ LET e1 == published[Len(published) - 1]
           e2 == published[Len(published)]
       IN /\ e1.eventType = BatchEventItemAdded
          /\ e2.eventType = BatchEventItemAdded
          /\ e1.orderId = <<last.event.orderId>>
          /\ e2 = e1
          /\ e2.batchId \in DOMAIN batches
          /\ batches[e2.batchId] = e2.batch

\* the events a step publishes, and their types
NewEvents == SubSeq(published', Len(published) + 1, Len(published'))

TypesOf(events) == [k \in 1..Len(events) |-> events[k].eventType]

\* the emission table: what an addition, an item update and each transition
\* publish
AddTypes(created) ==
    IF created THEN <<BatchEventCreated, BatchEventItemAdded>>
               ELSE <<BatchEventItemAdded>>

TransitionType(op) ==
    CASE op = "ProcessBatch" -> BatchEventProcessing
      [] op = "CompleteBatch" -> BatchEventCompleted
      [] op = "CancelBatch" -> BatchEventCancelled
      [] op = "MarkBatchAsDamaged" -> BatchEventDamaged

StatusReported(eventType) ==
    CASE eventType = BatchEventProcessing -> BatchStatusProcessing
      [] eventType = BatchEventCompleted -> BatchStatusCompleted
      [] eventType = BatchEventCancelled -> BatchStatusCancelled
      [] eventType = BatchEventDamaged -> BatchStatusDamaged

\* the sequences of event types a successful call may publish, by the
\* mutations it makes: created says that the addition had to create a batch,
\* updated that the order was found in a batch
EmissionTable(op, event, created, updated) ==
    IF op # "HandleOrderEvent"
    THEN IF op = "UpdateOrderStatus"
         THEN {<<BatchEventItemUpdated>>}
         ELSE {<<TransitionType(op)>>}
    ELSE CASE event.eventType = "order.created" -> {AddTypes(created)}
           [] event.eventType = "order.cancelled" -> {<<BatchEventItemRemoved>>}
           [] event.eventType \in {"order.shipped", "order.delivered",
                                   "order.inventory_allocated",
                                   "order.inventory_released"} ->
                  {<<BatchEventItemUpdated>>}
           [] event.eventType = "order.returned" ->
                  {<<BatchEventItemUpdated>> \o AddTypes(created)}
           [] event.eventType = "order.damage_processed" ->
                  IF event.order.status \in {"damage_detected_minor", "damage_processed"}
                  THEN {IF updated THEN <<BatchEventItemUpdated>>
                                   ELSE AddTypes(created)}
                  ELSE IF event.order.status = "damage_detected_major"
                  THEN {(IF updated THEN <<BatchEventItemUpdated>>
                                    ELSE AddTypes(created))
                        \o <<BatchEventDamaged>>}
                  ELSE {<<>>}
           [] OTHER -> {<<>>}

\* C14: a call that succeeds publishes exactly the events of the emission
\* table for the mutations it makes (batch.created only when a batch is
\* created, batch.item_added per addition, batch.item_removed per removal,
\* batch.item_updated per item status update, and for a transition the event
\* of the status reached, whose snapshot has that status); a call that
\* returns an error publishes nothing.
C14_EmissionTable ==
    [][IsCall
       => IF last'.err # NoError
          THEN NewEvents = <<>>
          ELSE /\ TypesOf(NewEvents) \in
                     EmissionTable(last'.op, last'.event,
                         PendingOf(batches, last'.event.order.productId) = {},
                         FindByOrderID(batches, last'.event.orderId) # {})
               /\ \A k \in 1..Len(NewEvents) :
                     NewEvents[k].eventType \in
                         {BatchEventProcessing, BatchEventCompleted,
                          BatchEventCancelled, BatchEventDamaged}
                     => NewEvents[k].batch.status
                           = StatusReported(NewEvents[k].eventType)
      ]_vars

\* an order.returned event was handled for an order in a batch whose product
\* had no pending batch: an item update, a batch creation and an addition
\* were published
C14_Witness ==
    /\ last.op = "HandleOrderEvent"
    /\ last.event.eventType = "order.returned"
    /\ last.err = NoError
    /\ Len(published) >= 3
    /\ TypesOf(SubSeq(published, Len(published) - 2, Len(published)))
          = <<BatchEventItemUpdated, BatchEventCreated, BatchEventItemAdded>>

\* the outcomes of the call a step makes, for a service in state st
CallOutcomes(st, now, op, event, batchId) ==
    CASE op = "HandleOrderEvent" -> HandleOrderEvent(st, now, event)
      [] op = "UpdateOrderStatus" ->
             UpdateOrderStatus(st, event.orderId, event.order.status)
      [] op = "ProcessBatch" -> ProcessBatch(st, batchId)
      [] op = "CompleteBatch" -> CompleteBatch(st, batchId)
      [] op = "CancelBatch" -> CancelBatch(st, batchId)
      [] op = "MarkBatchAsDamaged" -> MarkBatchAsDamaged(st, batchId)

\* what the caller and the repository see of an outcome
Results(outcomes) ==
    {[repo |-> r.repo, err |-> r.err, batchId |-> r.batchId] : r \in outcomes}

\* the argument of the transition calls is the id the caller named
CalledBatchId == IF last'.op = "HandleOrderEvent" THEN "" ELSE last'.batchId

\* C15: for every call, from every reachable state, the possible outcomes
\* (returned error, batch worked on, repository afterwards) with a publisher
\* that fails every PublishBatchEvent are those with a publisher that
\* succeeds, the outcome of the step taken among them, and the failing
\* publisher holds no event more.  Where the call with the failing publisher
\* has one outcome, every step of the call with the working one ending in it
\* says that the two sets are equal; where it has more, the sets are compared.
C15_PublisherFailureNoEffect ==
    [][IsCall
       => \A failing \in {CallOutcomes(ServiceState(TRUE), clock, last'.op,
                                        last'.event, CalledBatchId)} :
             /\ \A r \in failing : r.pub.events = published
             /\ \E r \in failing :
                   /\ r.repo = batches'
                   /\ r.err = last'.err
                   /\ last'.op = "HandleOrderEvent" => r.batchId = last'.batchId
             /\ \/ Cardinality(Results(failing)) = 1
                \/ Results(failing)
                     = Results(CallOutcomes(ServiceState(FALSE), clock, last'.op,
                                            last'.event, CalledBatchId))
      ]_vars

\* a batch was cancelled, and marking a stored batch as damaged with a
\* failing publisher succeeds, changes the repository and publishes nothing
C15_Witness ==
    /\ last.op = "CancelBatch"
    /\ last.err = NoError
    /\ \E id \in DOMAIN batches :
          \E r \in MarkBatchAsDamaged(ServiceState(TRUE), id) :
              /\ r.err = NoError
              /\ r.repo # batches
              /\ r.pub.events = published

\* the write errors that are unknown-topic-or-partition errors
UnknownTopicErrors ==
    {ErrUnknownTopicCode3, ErrUnknownTopicName, ErrUnknownTopicPlain,
     ErrUnknownTopicKelvin, ErrTopicDoesNotExist}

\* the messages the broker has taken since the current call began
LoggedByCall == SubSeq(kafkaLog, publishing.logged + 1, Len(kafkaLog))

\* C16: a PublishBatchEvent call makes at most two write attempts.  When its
\* first write failed with an unknown-topic-or-partition error and it has
\* returned, it made exactly two: the writer of the first is closed, the
\* second used a new, open writer with the same broker address and topic,
\* which is now the adapter's writer; a failed retry is returned as the
\* wrapped error with nothing written, and after a successful retry the
\* broker has taken the message of the call exactly once.
C16_UnknownTopicRetriedOnce ==
    LET a == publishing.attempts IN
    /\ Len(a) <= 2
    /\ ( /\ publishing.pc = "idle"
         /\ Len(a) >= 1
         /\ a[1].err \in UnknownTopicErrors )
       => /\ Len(a) = 2
          /\ publisher.writers[a[1].writer].closed
          /\ a[2].writer # a[1].writer
          /\ a[2].writer = publisher.writer
          /\ ~publisher.writers[a[2].writer].closed
          /\ publisher.writers[a[2].writer].addr = publisher.writers[a[1].writer].addr
          /\ publisher.writers[a[2].writer].topic = publisher.writers[a[1].writer].topic
          /\ IF a[2].err = NilError
             THEN /\ publishing.err = NilError
                  /\ LoggedByCall = <<[writer |-> a[2].writer,
                                       message |-> publishing.message[1]]>>
             ELSE /\ publishing.err = FailedAfterRetry \o a[2].err
                  /\ LoggedByCall = <<>>

\* the second call met an unknown-topic error and its retry succeeded
C16_Witness ==
    /\ publishing.pc = "idle"
    /\ publishing.calls = 2
    /\ Len(publishing.attempts) = 2
    /\ publishing.attempts[1].err = ErrUnknownTopicCode3
    /\ publishing.attempts[2].err = NilError
    /\ Len(kafkaLog) = 2

\* C17: a call whose first write failed with an error that is not an
\* unknown-topic-or-partition error has returned after that one attempt with
\* the wrapped error: nothing was written, and the writer used is open and
\* still the adapter's writer.
C17_OtherErrorsNotRetried ==
    LET a == publishing.attempts IN
    ( /\ Len(a) >= 1
      /\ a[1].err \in WriteErrors \ UnknownTopicErrors )
    => /\ Len(a) = 1
       /\ publishing.pc = "idle"
       /\ publishing.err = FailedToWrite \o a[1].err
       /\ publisher.writer = a[1].writer
       /\ ~publisher.writers[a[1].writer].closed
       /\ LoggedByCall = <<>>

\* a write failed with "[1] OffsetOutOfRange" after an earlier call had
\* recreated the writer
C17_Witness ==
    /\ Len(publishing.attempts) = 1
    /\ publishing.attempts[1].err = ErrOffsetOutOfRange
    /\ publishing.attempts[1].writer = 2

\* the published events of one batch id, in the order of publication
EventsOf(pub, id) == SelectSeq(pub, LAMBDA e : e.batchId = id)

PublishedBatchIds == {published[k].batchId : k \in 1..Len(published)}

\* the snapshot of event e is the batch prev after the one mutation that the
\* type of e reports
ReportsMutationOf(prev, e) ==
    LET b == e.batch IN
    /\ b.id = prev.id
    /\ b.productId = prev.productId
    /\ CASE e.eventType = BatchEventItemAdded ->
               LET i == ItemIndex(b, e.orderId[1]) IN
               /\ b.status = prev.status
               /\ i # 0
               /\ e.itemDetails = <<b.items[i]>>
               /\ b.items = IF HasOrder(prev, e.orderId[1])
                            THEN [prev.items EXCEPT ![i] = b.items[i]]
                            ELSE Append(prev.items, b.items[i])
         [] e.eventType = BatchEventItemUpdated ->
               LET i == ItemIndex(prev, e.orderId[1]) IN
               /\ b.status = prev.status
               /\ i # 0
               /\ Len(b.items) = Len(prev.items)
               /\ e.itemDetails = <<b.items[i]>>
               /\ b.items = [prev.items EXCEPT ![i] = b.items[i]]
               /\ b.items[i].orderId = e.orderId[1]
         [] e.eventType = BatchEventItemRemoved ->
               /\ b.status = prev.status
               /\ HasOrder(prev, e.orderId[1])
               /\ b.items = RemoveAt(prev.items, ItemIndex(prev, e.orderId[1]))
         [] e.eventType \in {BatchEventProcessing, BatchEventCompleted,
                             BatchEventCancelled, BatchEventDamaged} ->
               /\ b.items = prev.items
               /\ b.status = StatusReported(e.eventType)
         [] OTHER -> FALSE

\* the snapshot of a batch.created event: a new batch with its first item
ReportsCreation(e) ==
    /\ e.eventType = BatchEventCreated
    /\ e.batch.id = e.batchId
    /\ e.batch.status = BatchStatusPending
    /\ Len(e.batch.items) = 1

\* C18: the events published for one batch id tell the mutations of that
\* batch in order.  The first is batch.created; every later one is a
\* batch.created again or has as snapshot the snapshot of the event before it
\* changed by the one mutation its type reports; and the snapshot of the last
\* one is the batch as it is stored, or is empty when the batch is stored no
\* more.
C18_EventsFollowMutations ==
    \A id \in PublishedBatchIds :
        LET es == EventsOf(published, id) IN
        /\ ReportsCreation(es[1])
        /\ \A k \in 2..Len(es) :
              \/ ReportsCreation(es[k])
              \/ ReportsMutationOf(es[k - 1].batch, es[k])
        /\ IF id \in DOMAIN batches
           THEN es[Len(es)].batch = batches[id]
           ELSE /\ es[Len(es)].eventType = BatchEventItemRemoved
                /\ IsEmpty(es[Len(es)].batch)

\* a stored batch has been created, filled, updated and marked damaged: four
\* or more events tell of it, the last one batch.marked_damaged
C18_Witness ==
    \E id \in DOMAIN batches :
        LET es == EventsOf(published, id) IN
        /\ Len(es) >= 4
        /\ es[Len(es)].eventType = BatchEventDamaged
        /\ \E k \in 1..Len(es) : es[k].eventType = BatchEventItemUpdated
        /\ Len(batches[id].items) = 2

\* C19: every event was published when the mutation it reports was already
\* persisted: at the call of PublishBatchEvent the repository held the batch
\* of the event's snapshot, or, for the removal of the last item, held the
\* batch no more.
C19_PersistedBeforePublished ==
    /\ Len(storedAtPublish) = Len(published)
    /\ \A k \in 1..Len(published) :
          \/ storedAtPublish[k] = <<published[k].batch>>
          \/ /\ published[k].eventType = BatchEventItemRemoved
             /\ IsEmpty(published[k].batch)
             /\ storedAtPublish[k] = <<>>

\* C20: when the handling of an order event returns an error, the repository
\* and the published events are as before the event, and the consumer has
\* moved on by that one message: the next event it handles is the next of the
\* topic.
C20_DomainErrorNoEffect ==
    [][( /\ IsCall
         /\ last'.op = "HandleOrderEvent"
         /\ last'.err # NoError )
       => /\ batches' = batches
          /\ published' = published
          /\ offset' = offset + 1
      ]_vars

\* the second event of the topic was for an order that is in no batch, while
\* a batch is stored, and its handling returned the error
C20_Witness ==
    /\ last.op = "HandleOrderEvent"
    /\ last.event.eventType = "order.shipped"
    /\ last.err # NoError
    /\ offset = 2
    /\ batches # <<>>
    /\ FindByOrderID(batches, last.event.orderId) = {}

\* ==== order management service (the order aggregator) ========================
\* ---- encoding/json ----------------------------------------------------------
\* The bytes of a message or of a string are <<>> when they are not a JSON
\* text and <<v>> when they are the text of the JSON value v.  A JSON value
\* has a type and, by type, the characters of a string (str), a number in
\* tenths (num) or the members of an object in the order of the text
\* (members).  The key of a member and the json tag of a field are sequences
\* of characters.  A string whose characters are an RFC 3339 timestamp carries the
\* second it tells (time), and one whose characters are a JSON text carries
\* that text (text), which is what json.Unmarshal of []byte(string) reads.
NotJSON == <<>>

JValue(type, str, num, time, text, members) ==
    [type |-> type, str |-> str, num |-> num, time |-> time, text |-> text,
     members |-> members]

JString(s) == JValue("string", s, 0, <<>>, <<>>, <<>>)

JTime(t) == JValue("string", "rfc3339", 0, <<t>>, <<>>, <<>>)

JText(bytes) == JValue("string", "json", 0, <<>>, bytes, <<>>)

JNumber(tenths) == JValue("number", "", tenths, <<>>, <<>>, <<>>)

JArray == JValue("array", "", 0, <<>>, <<>>, <<>>)

JObject(members) == JValue("object", "", 0, <<>>, <<>>, members)

Member(key, value) == [key |-> key, value |-> value]

\* a field of a Go struct: its json tag, its name, its Go type and, for a
\* struct, the fields of that struct
Field(key, name, type, fields) ==
    [key |-> key, name |-> name, type |-> type, fields |-> fields]

FieldNames(fields) == {fields[i].name : i \in DOMAIN fields}

FieldNamed(fields, name) ==
    fields[CHOOSE i \in DOMAIN fields : fields[i].name = name]

\* the zero value of a field and of a struct
RECURSIVE ZeroField(_)
ZeroField(f) ==
    CASE f.type = "string" -> ""
      [] f.type = "bytes" -> NotJSON
      [] f.type \in {"float64", "int", "time.Time"} -> 0
      [] f.type = "struct" ->
             [n \in FieldNames(f.fields) |-> ZeroField(FieldNamed(f.fields, n))]

Zero(fields) == ZeroField(Field(<<>>, "", "struct", fields))

JsonError == "json: cannot unmarshal"

\* foldName of encoding/json: the name of a key or of a tag without its case,
\* by which json.Unmarshal matches a key that is no tag exactly.  A name is
\* the sequence of its characters; every letter a to z is put in upper case
\* and every other character of one byte is kept.  Of the characters of more
\* bytes, the long s and the Kelvin sign, named here by their code points,
\* fold to S and K; the others are their own fold.
foldRune(c) ==
    CASE \E k \in 1..26 : LowerCase[k] = c ->
             UpperCase[CHOOSE k \in 1..26 : LowerCase[k] = c]
      [] c = "U+017F" -> "S"
      [] c = "U+212A" -> "K"
      [] OTHER -> c

foldName(s) == [i \in 1..Len(s) |-> foldRune(s[i])]

\* the error of Time.UnmarshalJSON
TimeError == "parsing time"

\* json.Unmarshal of a JSON value into a struct.  The members are decoded in
\* the order of the text, each into the field whose tag is its key or, when no
\* tag is, the first field whose tag is its key but for the case; a member
\* without field is skipped and a field without member keeps the value it has.
\* A member whose value is not of the field's type (a number with a fraction
\* for an int) leaves the field as it is, the first such error is kept and the
\* decoding goes on; the error of Time.UnmarshalJSON ends the decoding at
\* once: a value that is no string leaves the field as it is, and a string
\* that is no timestamp leaves the zero time in it, since the result of the
\* parsing is assigned to the field with its error.  A
\* float64 and a time.Time are kept as tenths and seconds, an int as units, and
\* a string field read as bytes later keeps the bytes.
RECURSIVE object(_, _, _)
RECURSIVE objectMembers(_, _, _)
\* the value v decoded into the field f that holds old
fieldValue(v, f, old) ==
    LET stored(x) == [value |-> x, err |-> NoError, stop |-> FALSE]
        mismatch == [value |-> old, err |-> JsonError, stop |-> FALSE]
    IN CASE f.type = "string" ->
                IF v.type = "string" THEN stored(v.str) ELSE mismatch
         [] f.type = "bytes" ->
                IF v.type = "string" THEN stored(v.text) ELSE mismatch
         [] f.type = "float64" ->
                IF v.type = "number" THEN stored(v.num) ELSE mismatch
         [] f.type = "int" ->
                IF v.type = "number" /\ v.num % 10 = 0
                THEN stored(v.num \div 10) ELSE mismatch
         [] f.type = "time.Time" ->
                IF v.type # "string"
                THEN [value |-> old, err |-> TimeError, stop |-> TRUE]
                ELSE IF v.time # <<>>
                THEN stored(v.time[1])
                ELSE [value |-> ZeroField(f), err |-> TimeError,
                      stop |-> TRUE]
         [] f.type = "struct" -> object(v, f.fields, old)

objectMembers(members, fields, acc) ==
    IF members = <<>> \/ acc.stop
    THEN acc
    ELSE LET key == Head(members).key
             exact == {i \in DOMAIN fields : fields[i].key = key}
             folded == {i \in DOMAIN fields :
                           foldName(fields[i].key) = foldName(key)}
             is == IF exact # {} THEN exact ELSE folded
         IN IF is = {}
            THEN objectMembers(Tail(members), fields, acc)
            ELSE LET f == fields[CHOOSE i \in is : \A j \in is : i <= j]
                 IN objectMembers(
                        Tail(members), fields,
                        CHOOSE r \in
                            {[value |-> [acc.value EXCEPT ![f.name] = d.value],
                              err |-> IF d.stop \/ acc.err = NoError
                                      THEN d.err ELSE acc.err,
                              stop |-> d.stop] :
                             d \in {fieldValue(Head(members).value, f,
                                               acc.value[f.name])}} : TRUE)

object(v, fields, into) ==
    IF v.type # "object"
    THEN [value |-> into, err |-> JsonError, stop |-> FALSE]
    ELSE objectMembers(v.members, fields,
                       [value |-> into, err |-> NoError, stop |-> FALSE])

UnmarshalValue(v, fields) ==
    CHOOSE r \in {[err |-> d.err, value |-> d.value] :
                  d \in {object(v, fields, Zero(fields))}} : TRUE

\* json.Unmarshal(bytes, &struct)
Unmarshal(bytes, fields) ==
    IF bytes = NotJSON
    THEN [err |-> JsonError, value |-> Zero(fields)]
    ELSE UnmarshalValue(bytes[1], fields)

\* ---- domain: Order, OrderEvent, OrderDamageEvent, MQTTOrderEvent -------------
OrderFields ==
    <<Field(<<"i", "d">>, "ID", "string", <<>>),
      Field(<<"c", "u", "s", "t", "o", "m", "e", "r", "_", "i", "d">>, "CustomerID", "string", <<>>),
      Field(<<"p", "r", "o", "d", "u", "c", "t", "_", "i", "d">>, "ProductID", "string", <<>>),
      Field(<<"q", "u", "a", "n", "t", "i", "t", "y">>, "Quantity", "int", <<>>),
      Field(<<"s", "t", "a", "t", "u", "s">>, "Status", "string", <<>>),
      Field(<<"t", "o", "t", "a", "l", "_", "a", "m", "o", "u", "n", "t">>, "TotalAmount", "float64", <<>>),
      Field(<<"c", "r", "e", "a", "t", "e", "d", "_", "a", "t">>, "CreatedAt", "time.Time", <<>>),
      Field(<<"u", "p", "d", "a", "t", "e", "d", "_", "a", "t">>, "UpdatedAt", "time.Time", <<>>)>>

OrderEventFields ==
    <<Field(<<"e", "v", "e", "n", "t", "_", "t", "y", "p", "e">>, "EventType", "string", <<>>),
      Field(<<"o", "r", "d", "e", "r", "_", "i", "d">>, "OrderID", "string", <<>>),
      Field(<<"o", "r", "d", "e", "r">>, "Order", "struct", OrderFields),
      Field(<<"t", "i", "m", "e", "s", "t", "a", "m", "p">>, "Timestamp", "time.Time", <<>>)>>

OrderDamageDetailsFields ==
    <<Field(<<"t", "e", "m", "p", "e", "r", "a", "t", "u", "r", "e">>, "Temperature", "float64", <<>>),
      Field(<<"h", "u", "m", "i", "d", "i", "t", "y">>, "Humidity", "int", <<>>),
      Field(<<"s", "t", "a", "t", "u", "s">>, "Status", "string", <<>>),
      Field(<<"m", "q", "t", "t", "T", "o", "p", "i", "c">>, "MqttTopic", "string", <<>>)>>

OrderDamageEventFields ==
    <<Field(<<"e", "v", "e", "n", "t", "I", "d">>, "EventID", "string", <<>>),
      Field(<<"t", "y", "p", "e">>, "Type", "string", <<>>),
      Field(<<"s", "o", "u", "r", "c", "e">>, "Source", "string", <<>>),
      Field(<<"o", "c", "c", "u", "r", "r", "e", "d", "A", "t">>, "OccurredAt", "time.Time", <<>>),
      Field(<<"o", "r", "d", "e", "r", "I", "d">>, "OrderID", "string", <<>>),
      Field(<<"s", "e", "v", "e", "r", "i", "t", "y">>, "Severity", "string", <<>>),
      Field(<<"d", "e", "s", "c", "r", "i", "p", "t", "i", "o", "n">>, "Description", "string", <<>>),
      Field(<<"d", "e", "t", "a", "i", "l", "s">>, "Details", "struct", OrderDamageDetailsFields)>>

MQTTOrderEventFields ==
    <<Field(<<"m", "q", "t", "t", "_", "t", "o", "p", "i", "c">>, "MqttTopic", "string", <<>>),
      Field(<<"p", "a", "y", "l", "o", "a", "d">>, "Payload", "bytes", <<>>),
      Field(<<"t", "i", "m", "e", "s", "t", "a", "m", "p">>, "Timestamp", "float64", <<>>)>>

Order(id, customerID, productID, quantity, status, totalAmount, createdAt, updatedAt) ==
    [ID |-> id, CustomerID |-> customerID, ProductID |-> productID,
     Quantity |-> quantity, Status |-> status, TotalAmount |-> totalAmount,
     CreatedAt |-> createdAt, UpdatedAt |-> updatedAt]
\* ---- driven adapter: the order repository -----------------------------------
\* The service holds a domain.OrderRepository, whose Save and Update return an
\* error.  failing names the call that returns one where the store behind it
\* fails; it is "" for the MemoryOrderRepository, whose Save never fails and
\* whose Update fails for an id it does not hold.
NewMemoryOrderRepository == [orders |-> <<>>, failing |-> ""]

PutOrder(held, order) ==
    [id \in DOMAIN held \cup {order.ID} |->
        IF id = order.ID THEN order ELSE held[id]]

OrderSave(repo, order) ==
    IF repo.failing = "Save"
    THEN [repo |-> repo, err |-> "save failed"]
    ELSE [repo |-> [repo EXCEPT !.orders = PutOrder(@, order)], err |-> NoError]

OrderFindByID(repo, id) ==
    IF id \in DOMAIN repo.orders
    THEN [order |-> <<repo.orders[id]>>, err |-> NoError]
    ELSE [order |-> <<>>, err |-> "order not found"]

OrderUpdate(repo, order) ==
    IF repo.failing = "Update" \/ order.ID \notin DOMAIN repo.orders
    THEN [repo |-> repo, err |-> "update failed"]
    ELSE [repo |-> [repo EXCEPT !.orders = PutOrder(@, order)], err |-> NoError]

\* ---- driven adapter: RabbitMQPublisher --------------------------------------
\* queued are the events the broker has taken on the order events queue,
\* channelErr says whether PublishWithContext returns an error, and calls are
\* the calls of PublishOrderEvent with what they returned.
RabbitMQPublisher(queued, channelErr) ==
    [queued |-> queued, channelErr |-> channelErr, calls |-> <<>>]

PublishOrderEvent(pub, event) ==
    IF pub.channelErr
    THEN [pub EXCEPT !.calls = Append(@, [event |-> event, err |-> "channel error"])]
    ELSE [pub EXCEPT !.queued = Append(@, event),
                     !.calls = Append(@, [event |-> event, err |-> NoError])]

\* ---- application: the OrderService of order management ----------------------
\* st is the service's repository and publisher.  A call of the service runs
\* in its own goroutine, and between two of its calls of the repository or of
\* the publisher the other goroutines of the process run.  The frame of a
\* call holds where the call is (pc: the call of the repository or of the
\* publisher it makes next, "return" once it has returned), its arguments,
\* the time of its time.Now(), the order it holds and the error it returns.
\* A step of a call makes the call that pc names and goes on to the next; its
\* outcome is st and the frame after it.
Call(pc, args, now) ==
    [pc |-> pc, args |-> args, now |-> now, order |-> <<>>, err |-> NoError]

Stepped(repo, pub, call) == [repo |-> repo, pub |-> pub, call |-> call]

Returned(call, err) == [call EXCEPT !.pc = "return", !.err = err]

\* the switch on event.Severity, and as it would be without its default case
DamageStatus_MajorForUnknown(severity) ==
    CASE severity = "minor" -> "damage_detected_minor"
      [] severity = "critical" -> "cancelled_damage"
      [] OTHER -> "damage_detected_major"

DamageStatus(severity) ==
    CASE severity = "minor" -> "damage_detected_minor"
      [] severity = "major" -> "damage_detected_major"
      [] severity = "critical" -> "cancelled_damage"
      [] OTHER -> "damage_detected_unknown"

\* OrderService.HandleOrderDamageEvent: FindByID; for an id without order the
\* new order and Save; the status of the severity and Update; the
\* order.damage_processed event with the order as it was handed to Update,
\* whose publishing error is logged
HandleOrderDamageEvent(st, call) ==
    LET event == call.args IN
    CASE call.pc = "FindByID" ->
             LET found == OrderFindByID(st.repo, event.OrderID)
                 newOrder == Order(event.OrderID, "unknown", "unknown", 1,
                                   "created_from_damage_event", 0,
                                   event.OccurredAt, call.now)
             IN IF found.err # NoError
                THEN Stepped(st.repo, st.pub,
                             [call EXCEPT !.pc = "Save", !.order = <<newOrder>>])
                ELSE Stepped(st.repo, st.pub,
                             [call EXCEPT !.pc = "Update", !.order = found.order])
      [] call.pc = "Save" ->
             LET saved == OrderSave(st.repo, call.order[1]) IN
             IF saved.err # NoError
             THEN Stepped(st.repo, st.pub,
                          Returned(call, "failed to create order from damage event"))
             ELSE Stepped(saved.repo, st.pub, [call EXCEPT !.pc = "Update"])
      [] call.pc = "Update" ->
             LET changed == [call.order[1] EXCEPT
                               !.Status = DamageStatus(event.Severity),
                               !.UpdatedAt = call.now]
                 updated == OrderUpdate(st.repo, changed)
             IN IF updated.err # NoError
                THEN Stepped(st.repo, st.pub,
                             Returned([call EXCEPT !.order = <<changed>>],
                                      "failed to update order status after damage event"))
                ELSE Stepped(updated.repo, st.pub,
                             [call EXCEPT !.pc = "PublishOrderEvent",
                                          !.order = <<changed>>])
      [] call.pc = "PublishOrderEvent" ->
             LET orderEvent == [EventType |-> "order.damage_processed",
                                OrderID |-> call.order[1].ID,
                                Order |-> call.order[1],
                                Timestamp |-> call.now]
             IN Stepped(st.repo, PublishOrderEvent(st.pub, orderEvent),
                        Returned(call, NoError))

\* OrderService.HandleOrderEvent of order management: it logs and returns nil
LogOrderEvent(event) == NoError

\* OrderService.CreateOrder: Save of the new order, then the order.created
\* event, whose publishing error is logged.  args.ID is the fresh uuid.
CreateOrder(st, call) ==
    LET order == Order(call.args.ID, call.args.CustomerID, call.args.ProductID,
                       call.args.Quantity, "created", call.args.TotalAmount,
                       call.now, call.now)
    IN CASE call.pc = "Save" ->
                LET saved == OrderSave(st.repo, order) IN
                IF saved.err # NoError
                THEN Stepped(st.repo, st.pub,
                             Returned(call, "failed to save order"))
                ELSE Stepped(saved.repo, st.pub,
                             [call EXCEPT !.pc = "PublishOrderEvent",
                                          !.order = <<order>>])
         [] call.pc = "PublishOrderEvent" ->
                LET event == [EventType |-> "order.created",
                              OrderID |-> call.order[1].ID,
                              Order |-> call.order[1], Timestamp |-> call.now]
                IN Stepped(st.repo, PublishOrderEvent(st.pub, event),
                           Returned(call, NoError))

\* OrderService.UpdateOrderStatus of order management: FindByID; the order
\* found gets the status and the time of the call and is handed to Update;
\* then the order.updated event, whose publishing error is logged
OrderServiceUpdateOrderStatus(st, call) ==
    CASE call.pc = "FindByID" ->
             LET found == OrderFindByID(st.repo, call.args.ID) IN
             IF found.err # NoError
             THEN Stepped(st.repo, st.pub, Returned(call, "order not found"))
             ELSE Stepped(st.repo, st.pub,
                          [call EXCEPT
                             !.pc = "Update",
                             !.order = <<[found.order[1] EXCEPT
                                            !.Status = call.args.Status,
                                            !.UpdatedAt = call.now]>>])
      [] call.pc = "Update" ->
             LET updated == OrderUpdate(st.repo, call.order[1]) IN
             IF updated.err # NoError
             THEN Stepped(st.repo, st.pub,
                          Returned(call, "failed to update order"))
             ELSE Stepped(updated.repo, st.pub,
                          [call EXCEPT !.pc = "PublishOrderEvent"])
      [] call.pc = "PublishOrderEvent" ->
             LET event == [EventType |-> "order.updated",
                           OrderID |-> call.order[1].ID,
                           Order |-> call.order[1], Timestamp |-> call.now]
             IN Stepped(st.repo, PublishOrderEvent(st.pub, event),
                        Returned(call, NoError))

\* ---- driving adapter: OrderConsumerAdapter ----------------------------------
handleOrderDamageEvent(mqttEvent) ==
    LET damageEvent == Unmarshal(mqttEvent.Payload, OrderDamageEventFields) IN
    [type |-> "OrderDamageEvent", event |-> damageEvent.value,
     err |-> damageEvent.err]

translateMessage(body, now) ==
    LET mqttEvent == Unmarshal(body, MQTTOrderEventFields)
        event == Unmarshal(body, OrderEventFields)
    IN IF mqttEvent.err = NoError
          /\ mqttEvent.value.MqttTopic = "events/order-damage"
       THEN handleOrderDamageEvent(mqttEvent.value)
       ELSE IF event.err = NoError
       THEN [type |-> "OrderEvent", event |-> event.value, err |-> NoError]
       ELSE [type |-> "OrderEvent",
             event |-> [Zero(OrderEventFields) EXCEPT
                           !.EventType = "order.message",
                           !.OrderID = "unknown", !.Timestamp = now],
             err |-> NoError]

\* the decisions on a delivery
Ack == [op |-> "Ack", requeue |-> FALSE]

Nack(requeue) == [op |-> "Nack", requeue |-> requeue]

\* OrderConsumerAdapter.Start, the body of the loop from the delivery it has
\* taken from msgs to the call of the handler.  loop is the record of the
\* loop: the deliveries taken (n), where the body is (pc: "select" at the
\* head of the loop, "handling" in HandleOrderDamageEvent, "settle" before
\* the calls of Ack and Nack), the delivery's body, the handler called with
\* the frame of its call and the publisher's calls in it, the error of the
\* translation or of the handler, and the decisions made on the delivery.
\* HandleOrderEvent only logs, the loop is through it at once.
StartDelivery(loop, body, now) ==
    LET translated == translateMessage(body, now)
        taken == [loop EXCEPT !.n = @ + 1, !.body = body, !.now = now,
                              !.call = <<>>, !.publishes = <<>>,
                              !.settled = <<>>]
    IN IF translated.err # NoError
       THEN [taken EXCEPT !.pc = "settle", !.handler = "",
                          !.err = translated.err]
       ELSE IF translated.type = "OrderDamageEvent"
       THEN [taken EXCEPT !.pc = "handling",
                          !.handler = "HandleOrderDamageEvent",
                          !.call = <<Call("FindByID", translated.event, now)>>,
                          !.err = NoError]
       ELSE [taken EXCEPT !.pc = "settle", !.handler = "HandleOrderEvent",
                          !.err = LogOrderEvent(translated.event)]

\* the calls of Ack and Nack that the body of the loop makes on the delivery
\* it is through with, and as they would be without the continue after the
\* Nack of a message that was not translated
Settlement_NoContinue(loop) ==
    (IF loop.handler = "" THEN <<Nack(FALSE)>> ELSE <<>>)
    \o (IF loop.err # NoError THEN <<Nack(TRUE)>> ELSE <<Ack>>)

Settlement(loop) ==
    IF loop.handler = "" THEN <<Nack(FALSE)>>
    ELSE IF loop.err # NoError THEN <<Nack(TRUE)>>
    ELSE <<Ack>>

\* ---- inputs of the order management service ----------------------------------
Severities == {"minor", "major", "critical", "severe"}

\* the wall clock of the service, in seconds; the sensor readings are older
Times == {2, 3}

OccurredAt == 1

\* the DamageEvent as the detector writes it
DamageEventJSON(orderID, severity) ==
    JObject(<<Member(<<"e", "v", "e", "n", "t", "I", "d">>, JString(orderID)),
              Member(<<"t", "y", "p", "e">>, JString("order.damage")),
              Member(<<"s", "o", "u", "r", "c", "e">>, JString("mqtt-order-event-client")),
              Member(<<"o", "c", "c", "u", "r", "r", "e", "d", "A", "t">>, JTime(OccurredAt)),
              Member(<<"o", "r", "d", "e", "r", "I", "d">>, JString(orderID)),
              Member(<<"s", "e", "v", "e", "r", "i", "t", "y">>, JString(severity)),
              Member(<<"d", "e", "s", "c", "r", "i", "p", "t", "i", "o", "n">>, JString("Potential damage detected")),
              Member(<<"d", "e", "t", "a", "i", "l", "s">>,
                     JObject(<<Member(<<"t", "e", "m", "p", "e", "r", "a", "t", "u", "r", "e">>, JNumber(92)),
                               Member(<<"h", "u", "m", "i", "d", "i", "t", "y">>, JNumber(580)),
                               Member(<<"s", "t", "a", "t", "u", "s">>, JString("active")),
                               Member(<<"m", "q", "t", "t", "T", "o", "p", "i", "c">>, JString("events/sensor"))>>))>>)

\* the wrapper the MQTT bridge puts around a message of an MQTT topic
MQTTWrapper(topicKey, topic, payload) ==
    JObject(<<Member(topicKey, JString(topic)),
              Member(<<"p", "a", "y", "l", "o", "a", "d">>, payload),
              Member(<<"t", "i", "m", "e", "s", "t", "a", "m", "p">>, JNumber(17595))>>)

WrappedDamageEvent(orderID, severity) ==
    <<MQTTWrapper(<<"m", "q", "t", "t", "_", "t", "o", "p", "i", "c">>, "events/order-damage",
                  JText(<<DamageEventJSON(orderID, severity)>>))>>

BareDamageEvent(orderID, severity) == <<DamageEventJSON(orderID, severity)>>

\* a wrapper whose payload is no JSON text
WrappedGarbage ==
    <<MQTTWrapper(<<"m", "q", "t", "t", "_", "t", "o", "p", "i", "c">>, "events/order-damage", JString("not json"))>>

\* a wrapper of another topic, one that spells the key of the topic mqttTopic,
\* a JSON text that is no object, and an OrderEvent
WrappedOtherTopic ==
    <<MQTTWrapper(<<"m", "q", "t", "t", "_", "t", "o", "p", "i", "c">>, "events/sensor",
                  JText(<<DamageEventJSON("o1", "minor")>>))>>

WrappedCamelCase ==
    <<MQTTWrapper(<<"m", "q", "t", "t", "T", "o", "p", "i", "c">>, "events/order-damage",
                  JText(<<DamageEventJSON("o1", "minor")>>))>>

\* a wrapper and a DamageEvent whose keys are the tags in another case
WrappedOtherCase ==
    <<JObject(<<Member(<<"m", "Q", "T", "T", "_", "T", "O", "P", "I", "C">>, JString("events/order-damage")),
                Member(<<"p", "A", "Y", "L", "O", "A", "D">>,
                       JText(<<JObject(<<Member(<<"e", "V", "E", "N", "T", "I", "D">>, JString("o1")),
                                         Member(<<"O", "c", "c", "u", "r", "r", "e", "d", "A", "T">>, JTime(OccurredAt)),
                                         Member(<<"O", "R", "D", "E", "R", "I", "d">>, JString("o1")),
                                         Member(<<"s", "E", "V", "E", "R", "I", "T", "Y">>, JString("minor"))>>)>>)),
                Member(<<"t", "i", "m", "e", "s", "t", "a", "m", "p">>, JNumber(17595))>>)>>

\* a wrapper around a DamageEvent whose occurredAt is no timestamp and comes
\* before its orderId
WrappedBadTime ==
    <<MQTTWrapper(<<"m", "q", "t", "t", "_", "t", "o", "p", "i", "c">>, "events/order-damage",
                  JText(<<JObject(<<Member(<<"o", "c", "c", "u", "r", "r", "e", "d", "A", "t">>, JString("yesterday")),
                                    Member(<<"o", "r", "d", "e", "r", "I", "d">>, JString("o1")),
                                    Member(<<"s", "e", "v", "e", "r", "i", "t", "y">>, JString("major"))>>)>>))>>

ArrayBody == <<JArray>>

OrderEventBody ==
    <<JObject(<<Member(<<"e", "v", "e", "n", "t", "_", "t", "y", "p", "e">>, JString("order.updated")),
                Member(<<"o", "r", "d", "e", "r", "_", "i", "d">>, JString("o1")),
                Member(<<"t", "i", "m", "e", "s", "t", "a", "m", "p">>, JTime(OccurredAt))>>)>>

DamageBodies ==
    {WrappedDamageEvent("o1", s) : s \in Severities}
    \cup {WrappedDamageEvent("o2", "major")}

Bodies ==
    DamageBodies
    \cup {BareDamageEvent("o1", "major"), WrappedGarbage, WrappedOtherTopic,
          WrappedCamelCase, WrappedOtherCase, WrappedBadTime, ArrayBody,
          OrderEventBody, NotJSON}

RepoFaults == {"", "Save", "Update"}

\* ---- state machine of the order management service ---------------------------
\* main starts the consumer in one goroutine and the HTTP server in another,
\* and the server serves every request in a goroutine of its own: the
\* handling of a delivery, a POST /orders and a PUT /orders/:id/status run
\* side by side, each from one call of the repository or of the publisher to
\* the next.  One request of each kind is served at a time.
AggregatorState(failing, channelErr) ==
    [repo |-> [NewMemoryOrderRepository EXCEPT !.orders = orders,
                                               !.failing = failing],
     pub |-> RabbitMQPublisher(orderPublished, channelErr)]

\* the deliveries and the requests to change a status that the service has
\* taken, which MaxDeliveries bounds together; a request is taken as long as
\* they are fewer
Handled == delivery.n + api.updates

\* the variables of the other services
notAggregatorVars ==
    <<serviceVars, publisherVars, detectorVars, built, simulatorVars,
      processVars, twinVars, memoryVars, mqttVars>>

\* the consumer takes the next delivery from msgs, translates it and calls
\* the handler of its type
Deliver ==
    /\ delivery.pc = "select"
    /\ Handled < MaxDeliveries
    /\ \E body \in Bodies, now \in Times :
          delivery' = StartDelivery(delivery, body, now)
    /\ UNCHANGED <<orders, orderPublished, api>>
    /\ UNCHANGED <<notAggregatorVars, queueVars>>

\* HandleOrderDamageEvent makes its next call of the repository or of the
\* publisher, which fails for one of faults
HandleWith(faults) ==
    /\ delivery.pc = "handling"
    /\ \E failing \in faults, channelErr \in BOOLEAN :
          \E r \in {HandleOrderDamageEvent(AggregatorState(failing, channelErr),
                                           delivery.call[1])} :
             /\ orders' = r.repo.orders
             /\ orderPublished' = r.pub.queued
             /\ delivery' = [delivery EXCEPT
                                !.call = <<r.call>>,
                                !.publishes = @ \o r.pub.calls,
                                !.err = r.call.err,
                                !.pc = IF r.call.pc = "return"
                                       THEN "settle" ELSE @]
    /\ UNCHANGED api
    /\ UNCHANGED <<notAggregatorVars, queueVars>>

Handle == HandleWith(RepoFaults)

\* What the broker makes of delivery.Ack(false) or delivery.Nack(false,
\* requeue) on the delivery the loop has in hand; Start does not look at the
\* error of the call.  On a lost connection nothing reaches the broker; a
\* Nack with requeue puts the message back into the queue as redelivered;
\* else the message is settled.
Settled(q, decision) ==
    IF q.inHand = <<>> THEN q
    ELSE IF ~q.connected \/ ~(\E i \in DOMAIN q.unacked :
                                 q.unacked[i].id = q.inHand[1].id)
    THEN [q EXCEPT !.inHand = <<>>]
    ELSE LET others == SelectSeq(q.unacked,
                                 LAMBDA m : m.id # q.inHand[1].id)
         IN IF decision.requeue
            THEN [q EXCEPT !.inHand = <<>>, !.unacked = others,
                           !.ready = <<[q.inHand[1] EXCEPT
                                          !.redelivered = TRUE]>> \o @]
            ELSE [q EXCEPT !.inHand = <<>>, !.unacked = others,
                           !.settled =
                              Append(@, [id |-> q.inHand[1].id,
                                         op |-> decision.op,
                                         redelivered |->
                                            q.inHand[1].redelivered])]

\* the body of the loop is through with the delivery: Ack or Nack, and back
\* to the select
Settle ==
    /\ delivery.pc = "settle"
    /\ \E made \in {Settlement(delivery)} :
          /\ delivery' = [delivery EXCEPT !.pc = "select", !.settled = made]
          /\ queue' = Settled(queue, made[1])
    /\ UNCHANGED <<orders, orderPublished, api>>
    /\ UNCHANGED notAggregatorVars

\* the time of a request
RequestTimes == {2}

\* POST /orders: CreateOrder is called and saves the order under a fresh
\* uuid, the id of no order and of no damage event that is being handled
ApiCreateOrder ==
    /\ api.create = <<>>
    /\ Handled < MaxDeliveries
    /\ "o2" \notin DOMAIN orders
    /\ ~(delivery.pc = "handling" /\ delivery.call[1].args.OrderID = "o2")
    /\ \E now \in RequestTimes :
          \E r \in {CreateOrder(AggregatorState("", FALSE),
                                Call("Save",
                                     [ID |-> "o2", CustomerID |-> "c1",
                                      ProductID |-> "p1", Quantity |-> 2,
                                      TotalAmount |-> 50], now))} :
             /\ orders' = r.repo.orders
             /\ api' = [api EXCEPT !.create = <<r.call>>]
    /\ UNCHANGED <<orderPublished, delivery>>
    /\ UNCHANGED <<notAggregatorVars, queueVars>>

\* CreateOrder publishes its event and returns, and the request is answered
ApiCreateOrderNext ==
    /\ api.create # <<>>
    /\ \E channelErr \in BOOLEAN :
          \E r \in {CreateOrder(AggregatorState("", channelErr),
                                api.create[1])} :
             /\ orders' = r.repo.orders
             /\ orderPublished' = r.pub.queued
             /\ api' = [api EXCEPT !.create = IF r.call.pc = "return"
                                              THEN <<>> ELSE <<r.call>>]
    /\ UNCHANGED delivery
    /\ UNCHANGED <<notAggregatorVars, queueVars>>

\* the ids and the statuses of the requests to change a status, of an order
\* of a damage event and of an order created through the API
RequestIds == {"o1", "o2"}

RequestStatuses == {"shipped"}

\* PUT /orders/:id/status: UpdateOrderStatus is called and looks for the
\* order; the request for an id without order is answered at once
ApiUpdateOrderStatus ==
    /\ api.update = <<>>
    /\ Handled < MaxDeliveries
    /\ \E id \in RequestIds, status \in RequestStatuses, now \in RequestTimes :
          \E r \in {OrderServiceUpdateOrderStatus(
                       AggregatorState("", FALSE),
                       Call("FindByID", [ID |-> id, Status |-> status], now))} :
             api' = [api EXCEPT !.updates = @ + 1,
                                !.err = r.call.err,
                                !.update = IF r.call.pc = "return"
                                           THEN <<>> ELSE <<r.call>>]
    /\ UNCHANGED <<orders, orderPublished, delivery>>
    /\ UNCHANGED <<notAggregatorVars, queueVars>>

\* UpdateOrderStatus makes its next call, Update and then PublishOrderEvent,
\* and after the last the request is answered
ApiUpdateOrderStatusNext ==
    /\ api.update # <<>>
    /\ \E channelErr \in BOOLEAN :
          \E r \in {OrderServiceUpdateOrderStatus(
                       AggregatorState("", channelErr), api.update[1])} :
             /\ orders' = r.repo.orders
             /\ orderPublished' = r.pub.queued
             /\ api' = [api EXCEPT !.err = r.call.err,
                                   !.update = IF r.call.pc = "return"
                                              THEN <<>> ELSE <<r.call>>]
    /\ UNCHANGED delivery
    /\ UNCHANGED <<notAggregatorVars, queueVars>>

AggregatorNext ==
    \/ Deliver
    \/ Handle
    \/ Settle
    \/ ApiCreateOrder
    \/ ApiCreateOrderNext
    \/ ApiUpdateOrderStatus
    \/ ApiUpdateOrderStatusNext

AggregatorSpec == Init /\ [][AggregatorNext]_vars

\* ---- properties of the order management service ------------------------------
\* a step in which the consumer takes a delivery
IsDelivery == delivery'.n = delivery.n + 1

\* a step of HandleOrderDamageEvent: the call named pc, after which the
\* handler is at next
IsHandlerStep(pc, next) ==
    /\ delivery.pc = "handling"
    /\ delivery.call[1].pc = pc
    /\ delivery'.call[1].pc = next

\* the deliveries that carry a DamageEvent in the wrapper of the bridge, and
\* the DamageEvent they carry
CarriedDamageEvent(body) == Unmarshal(body[1].members[2].value.text,
                                      OrderDamageEventFields).value

\* the status transition table of the order aggregator
TargetStatus(severity) ==
    CASE severity = "minor" -> "damage_detected_minor"
      [] severity = "major" -> "damage_detected_major"
      [] severity = "critical" -> "cancelled_damage"
      [] severity \notin {"minor", "major", "critical"} ->
             "damage_detected_unknown"

\* the last delivery was a damage event, and its handler has returned no error
DamageHandled ==
    /\ delivery.handler = "HandleOrderDamageEvent"
    /\ delivery.pc \in {"settle", "select"}
    /\ delivery.err = NoError

\* C21: the handling of a damage event stores the order of the event's orderId
\* with the status the table gives for the event's severity:
\* damage_detected_minor, damage_detected_major, cancelled_damage, and
\* damage_detected_unknown for every other severity.  That is the stored
\* status once the handler has made its Update, and it is the stored status
\* when the handler returns in every run in which no request to change a
\* status was taken.  The event is the one the handler was called with.
C21_StatusBySeverity ==
    [][( \/ IsHandlerStep("Update", "PublishOrderEvent")
         \/ /\ IsHandlerStep("PublishOrderEvent", "return")
            /\ api.updates = 0 )
       => \A event \in {delivery.call[1].args} :
             /\ event.OrderID \in DOMAIN orders'
             /\ orders'[event.OrderID].Status = TargetStatus(event.Severity)
      ]_vars

\* an order created by a first damage event has got a second one of a severity
\* that is none of the three, and is stored as damage_detected_unknown
C21_Witness ==
    /\ DamageHandled
    /\ delivery.n = 2
    /\ delivery.body = WrappedDamageEvent("o1", "severe")
    /\ orders["o1"].CreatedAt = OccurredAt
    /\ orders["o1"].Status = "damage_detected_unknown"

\* C22: the handling of a damage event for an orderId without order stores a
\* new order of that id with customer and product "unknown", quantity 1,
\* amount 0 and createdAt the event's occurredAt, and then gives it the
\* derived status; for an orderId with an order it changes the status and
\* updatedAt of that order and nothing else.  No other order changes, and
\* exactly one event is published for the handling: PublishOrderEvent is
\* called once and returns no error, the event is added to the queue of the
\* publisher, it is an order.damage_processed event of that order id, and
\* its snapshot is the stored order with the derived status and the
\* handler's updatedAt.
C22_CreateOnMissing ==
    [][( /\ delivery.pc = "handling"
         /\ delivery' # delivery )
       => \A event \in {delivery.call[1].args} :
          \A id \in {event.OrderID} :
             /\ \A other \in DOMAIN orders \ {id} :
                   other \in DOMAIN orders' /\ orders'[other] = orders[other]
             /\ DOMAIN orders' \subseteq DOMAIN orders \cup {id}
             /\ IsHandlerStep("FindByID", "Save") => id \notin DOMAIN orders
             /\ IsHandlerStep("FindByID", "Update") => id \in DOMAIN orders
             /\ delivery.call[1].pc = "FindByID" => orders' = orders
             /\ IsHandlerStep("Save", "Update") =>
                   /\ id \in DOMAIN orders'
                   /\ orders'[id].ID = id
                   /\ orders'[id].CustomerID = "unknown"
                   /\ orders'[id].ProductID = "unknown"
                   /\ orders'[id].Quantity = 1
                   /\ orders'[id].TotalAmount = 0
                   /\ orders'[id].CreatedAt = event.OccurredAt
             /\ IsHandlerStep("Update", "PublishOrderEvent") =>
                   /\ id \in DOMAIN orders
                   /\ orders'[id] =
                         [orders[id] EXCEPT
                            !.Status = TargetStatus(event.Severity),
                            !.UpdatedAt = delivery.now]
             /\ delivery.call[1].pc # "PublishOrderEvent" =>
                   /\ delivery'.publishes = <<>>
                   /\ orderPublished' = orderPublished
             /\ IsHandlerStep("PublishOrderEvent", "return") =>
                   /\ orders' = orders
                   /\ Len(delivery'.publishes) = 1
                   /\ delivery'.publishes[1].event.EventType
                         = "order.damage_processed"
                   /\ delivery'.publishes[1].event.OrderID = id
                   /\ delivery'.publishes[1].event.Order =
                         [orders[id] EXCEPT
                            !.Status = TargetStatus(event.Severity),
                            !.UpdatedAt = delivery.now]
                   /\ delivery'.publishes[1].err = NoError
                   /\ orderPublished' =
                         Append(orderPublished, delivery'.publishes[1].event)
      ]_vars

\* C23: a delivery that was acknowledged after the handling of its damage
\* event had its order.damage_processed event published: the call of
\* PublishOrderEvent returned no error.
C23_AckAfterPublished ==
    ( /\ delivery.handler = "HandleOrderDamageEvent"
      /\ Ack \in {delivery.settled[i] : i \in DOMAIN delivery.settled} )
    => \E i \in DOMAIN delivery.publishes :
          /\ delivery.publishes[i].event.EventType = "order.damage_processed"
          /\ delivery.publishes[i].err = NoError

\* the bodies that cannot be translated: no JSON text, a JSON text that is no
\* object, and a wrapper of the damage topic whose payload is no JSON text or
\* no DamageEvent
Untranslatable == {NotJSON, ArrayBody, WrappedGarbage, WrappedBadTime}

\* C24: a delivery whose body cannot be translated is negatively acknowledged
\* without requeue, no handler is called for it and the orders stay as they
\* are.
C24_UntranslatableRejected ==
    [][( /\ delivery.pc = "settle"
         /\ delivery'.pc = "select"
         /\ delivery.body \in Untranslatable )
       => /\ delivery'.settled = <<Nack(FALSE)>>
          /\ delivery.handler = ""
          /\ delivery.call = <<>>
      ]_vars

\* C25: every delivery gets one decision: Ack when the handler returned no
\* error, Nack with requeue when it returned one, and Nack without requeue
\* when no handler was called.  A delivery has no decision while it is
\* handled, and one when the loop is back at its select.
C25_OneDecisionPerDelivery ==
    /\ delivery.pc # "select" => delivery.settled = <<>>
    /\ (delivery.n > 0 /\ delivery.pc = "select")
       => /\ Len(delivery.settled) = 1
          /\ delivery.settled[1] =
                IF delivery.handler = "" THEN Nack(FALSE)
                ELSE IF delivery.err = NoError THEN Ack
                ELSE Nack(TRUE)

\* a delivery was acknowledged, and the next one, whose handler returned an
\* error from the repository, was rejected with requeue
C25_Witness ==
    /\ delivery.n = 2
    /\ delivery.pc = "select"
    /\ delivery.handler = "HandleOrderDamageEvent"
    /\ delivery.err # NoError
    /\ delivery.settled = <<Nack(TRUE)>>
    /\ orderPublished # <<>>

\* C26: a delivery whose body is the bare DamageEvent is handled as the
\* delivery of the wrapper carrying that DamageEvent is:
\* HandleOrderDamageEvent is called with that DamageEvent.
C26_BothPayloadFormsHandled ==
    [][\A o \in {"o1", "o2"}, severity \in Severities :
          ( /\ IsDelivery
            /\ delivery'.body = BareDamageEvent(o, severity) )
          => /\ delivery'.handler = "HandleOrderDamageEvent"
             /\ delivery'.call # <<>>
             /\ delivery'.call[1].args
                   = CarriedDamageEvent(WrappedDamageEvent(o, severity))
      ]_vars


\* ==== sensor detector (mqtt-order-event-client) ===============================
\* Temperatures and humidities are counted in tenths.
minTemperature == 100

\* the Event of the sensor topic and its EventData
EventDataFields ==
    <<Field(<<"t", "e", "m", "p", "e", "r", "a", "t", "u", "r", "e">>, "Temperature", "float64", <<>>),
      Field(<<"h", "u", "m", "i", "d", "i", "t", "y">>, "Humidity", "float64", <<>>),
      Field(<<"s", "t", "a", "t", "u", "s">>, "Status", "string", <<>>)>>

EventFields ==
    <<Field(<<"i", "d">>, "ID", "string", <<>>),
      Field(<<"t", "i", "m", "e", "s", "t", "a", "m", "p">>, "Timestamp", "time.Time", <<>>),
      Field(<<"t", "y", "p", "e">>, "Type", "string", <<>>),
      Field(<<"s", "o", "u", "r", "c", "e">>, "Source", "string", <<>>),
      Field(<<"d", "a", "t", "a">>, "Data", "struct", EventDataFields)>>

EventStoreMaxSize == 1000

\* EventStore.AddEvent: the event is appended and the last maxSize are kept
AddEvent(events, event) ==
    LET all == Append(events, event) IN
    IF Len(all) > EventStoreMaxSize
    THEN SubSeq(all, Len(all) - EventStoreMaxSize + 1, Len(all))
    ELSE all

\* ---- package publisher -------------------------------------------------------
deriveSeverity_MajorFirst(temperature, humidity) ==
    IF temperature >= 300 \/ humidity >= 800 THEN "major"
    ELSE IF temperature >= 400 \/ humidity >= 900 THEN "critical"
    ELSE "minor"

deriveSeverity(temperature, humidity) ==
    LET severity1 == IF temperature >= 300 \/ humidity >= 800
                     THEN "major" ELSE "minor"
    IN IF temperature >= 400 \/ humidity >= 900 THEN "critical" ELSE severity1

\* the OrderDamageEvent that both PublishOrderDamageFromSensor build
BuildOrderDamageEvent(sensorID, source, temperature, humidity, status, mqttTopic, now) ==
    [EventID |-> sensorID,
     Type |-> "order.damage",
     Source |-> source,
     OccurredAt |-> now,
     OrderID |-> sensorID,
     Severity |-> deriveSeverity(temperature, humidity),
     Description |-> "Potential damage detected: temp=" \o ToString(temperature)
                     \o ", humidity=" \o ToString(humidity),
     Details |-> [Temperature |-> temperature, Humidity |-> humidity,
                  Status |-> status, MqttTopic |-> mqttTopic]]

\* json.Marshal of the publisher's OrderDamageEvent
MarshalOrderDamageEvent(evt) ==
    <<JObject(<<Member(<<"e", "v", "e", "n", "t", "I", "d">>, JString(evt.EventID)),
                Member(<<"t", "y", "p", "e">>, JString(evt.Type)),
                Member(<<"s", "o", "u", "r", "c", "e">>, JString(evt.Source)),
                Member(<<"o", "c", "c", "u", "r", "r", "e", "d", "A", "t">>, JTime(evt.OccurredAt)),
                Member(<<"o", "r", "d", "e", "r", "I", "d">>, JString(evt.OrderID)),
                Member(<<"s", "e", "v", "e", "r", "i", "t", "y">>, JString(evt.Severity)),
                Member(<<"d", "e", "s", "c", "r", "i", "p", "t", "i", "o", "n">>, JString(evt.Description)),
                Member(<<"d", "e", "t", "a", "i", "l", "s">>,
                       JObject(<<Member(<<"t", "e", "m", "p", "e", "r", "a", "t", "u", "r", "e">>,
                                        JNumber(evt.Details.Temperature)),
                                 Member(<<"h", "u", "m", "i", "d", "i", "t", "y">>, JNumber(evt.Details.Humidity)),
                                 Member(<<"s", "t", "a", "t", "u", "s">>, JString(evt.Details.Status)),
                                 Member(<<"m", "q", "t", "t", "T", "o", "p", "i", "c">>,
                                        JString(evt.Details.MqttTopic))>>))>>)>>

\* The MqttPublisher is nil (<<>>) when NewMqttPublisherFromEnv failed, else
\* it holds its topic.  NewMqttPublisherFromEnv with connected, the result of
\* client.Connect.
NewMqttPublisherFromEnv(connected) ==
    IF connected THEN <<[Topic |-> "events/order-damage"]>> ELSE <<>>

DeadlineExceeded == "context deadline exceeded"

\* One call of MqttPublisher.PublishOrderDamageFromSensor that has started
\* its goroutine: the message it has built, the goroutine (client.Publish,
\* Wait, done <- t.Error()), whether the client has written the message, the
\* error of the token once Wait is over, the buffered channel done and what
\* the call returned.
PublishCallOf(message) ==
    [message |-> message, goroutine |-> "running", delivered |-> FALSE,
     token |-> <<>>, done |-> <<>>, returned |-> <<>>]

\* MqttPublisher.PublishOrderDamageFromSensor up to its select: a nil
\* publisher returns nil at once; else the event is built and encoded and the
\* goroutine that publishes it is started.  The outcome is the attempts to
\* publish that the call makes, none or one.
MqttPublishOrderDamageFromSensor(p, sensorID, source, temperature, humidity, status, mqttTopic, now) ==
    IF p = <<>>
    THEN <<>>
    ELSE LET evt == BuildOrderDamageEvent(sensorID, source, temperature,
                                          humidity, status, mqttTopic, now)
             message == [topic |-> p[1].Topic, key |-> "",
                         payload |-> MarshalOrderDamageEvent(evt)]
         IN <<[to |-> "mqtt", message |-> message, event |-> evt]>>

\* Publisher.PublishOrderDamageFromSensor, the Kafka publisher of the package:
\* the message it hands to writer.WriteMessages, keyed by the order id
KafkaPublishOrderDamageFromSensor(sensorID, source, temperature, humidity, status, mqttTopic, now) ==
    LET evt == BuildOrderDamageEvent(sensorID, source, temperature, humidity,
                                     status, mqttTopic, now)
    IN [to |-> "kafka",
        message |-> [topic |-> "order-status-events", key |-> evt.OrderID,
                     payload |-> MarshalOrderDamageEvent(evt)],
        event |-> evt]

\* ---- main: messageHandler ----------------------------------------------------
\* messageHandler up to the call of the order publisher: the payload of the
\* message is decoded and the event stored; a payload that does not decode is
\* logged and dropped.  The outcome is the event store, the event, the error
\* and whether the handler goes on to publish a damage event (below).
messageHandler(store, msg) ==
    LET event == Unmarshal(msg.payload, EventFields) IN
    IF event.err # NoError
    THEN [eventStore |-> store, event |-> <<>>, err |-> event.err,
          below |-> FALSE]
    ELSE [eventStore |-> AddEvent(store, event.value),
          event |-> <<event.value>>, err |-> NoError,
          below |-> event.value.Data.Temperature < minTemperature]

\* ---- inputs of the detector ---------------------------------------------------
SensorReading(id, temperature, humidity) ==
    <<JObject(<<Member(<<"i", "d">>, JString(id)),
                Member(<<"t", "i", "m", "e", "s", "t", "a", "m", "p">>, JTime(OccurredAt)),
                Member(<<"t", "y", "p", "e">>, JString("sensor_reading")),
                Member(<<"s", "o", "u", "r", "c", "e">>, JString("temperature_sensor_03")),
                Member(<<"d", "a", "t", "a">>,
                       JObject(<<Member(<<"t", "e", "m", "p", "e", "r", "a", "t", "u", "r", "e">>, temperature),
                                 Member(<<"h", "u", "m", "i", "d", "i", "t", "y">>, humidity),
                                 Member(<<"s", "t", "a", "t", "u", "s">>, JString("active"))>>))>>)>>

\* readings around the threshold of 10.0 degrees, with a humidity of each
\* severity, one of them with half a percent
WellFormedReadings ==
    {SensorReading("s1", JNumber(t), JNumber(h))
        : t \in {50, 99, 100, 101}, h \in {585, 850}}
    \cup {SensorReading("s2", JNumber(50), JNumber(950))}

\* no JSON text, a JSON text that is no object, and a reading whose
\* temperature is a string
MalformedReadings ==
    {NotJSON, ArrayBody, SensorReading("s1", JString("cold"), JNumber(585))}

SensorTopic == "events/sensor"

\* ---- state machine of the detector --------------------------------------------
\* The MQTT client calls messageHandler for one message at a time.  main runs
\* beside it, and so does the goroutine of every call of
\* PublishOrderDamageFromSensor, which outlives a call that has returned with
\* the error of its context.  handling is the call of messageHandler: the
\* messages handled (n), where it is (pc: "idle" between two messages,
\* "publish" before the call of the order publisher, "select" in the select
\* of that call), the payload and the event of the message, the attempts to
\* publish made for it and the error of the decoding or of the publisher.
notDetectorVars ==
    <<serviceVars, publisherVars, aggregatorVars, built, simulatorVars,
      processVars, twinVars, memoryVars, queueVars>>

\* main, lines 146 to 157: the order publisher is created once the client has
\* subscribed to the sensor topic; when that fails main logs a warning and
\* goes on with a nil publisher.  The global is written without
\* synchronisation with the handler that reads it.
StartPublisher ==
    /\ ~handling.started
    /\ \E connected \in BOOLEAN :
          orderPublisher' = NewMqttPublisherFromEnv(connected)
    /\ handling' = [handling EXCEPT !.started = TRUE]
    /\ UNCHANGED <<eventStore, mqttPublisher>>
    /\ UNCHANGED notDetectorVars

\* the MQTT client calls messageHandler for a message of the sensor topic:
\* lines 285 to 300, up to the comparison with minTemperature
OnMessage ==
    /\ handling.pc = "idle"
    /\ handling.n < MaxReadings
    /\ \E payload \in WellFormedReadings \cup MalformedReadings :
          \E r \in {messageHandler(eventStore, [topic |-> SensorTopic,
                                                payload |-> payload])} :
             /\ eventStore' = r.eventStore
             /\ handling' = [handling EXCEPT
                               !.n = @ + 1,
                               !.pc = IF r.below THEN "publish" ELSE "idle",
                               !.payload = payload,
                               !.event = IF r.below THEN r.event ELSE <<>>,
                               !.attempts = <<>>,
                               !.err = r.err]
    /\ UNCHANGED <<orderPublisher, mqttPublisher>>
    /\ UNCHANGED notDetectorVars

\* messageHandler calls orderPublisher.PublishOrderDamageFromSensor with the
\* publisher the global holds now.  A nil publisher returns nil, and the
\* handler logs 'Order damage event published' and returns; else the event is
\* built and encoded, the goroutine is started and the handler waits in the
\* select.
PublishCall ==
    /\ handling.pc = "publish"
    /\ \E now \in Times :
         \E attempts \in {MqttPublishOrderDamageFromSensor(
                             orderPublisher, handling.event[1].ID,
                             "mqtt-order-event-client",
                             handling.event[1].Data.Temperature,
                             handling.event[1].Data.Humidity,
                             handling.event[1].Data.Status, SensorTopic, now)} :
            IF attempts = <<>>
            THEN /\ handling' = [handling EXCEPT !.pc = "idle", !.event = <<>>,
                                                 !.err = NoError]
                 /\ UNCHANGED mqttPublisher
            ELSE /\ handling' = [handling EXCEPT !.pc = "select",
                                                 !.event = <<>>,
                                                 !.attempts = attempts]
                 /\ mqttPublisher' =
                       [mqttPublisher EXCEPT
                          !.calls = Append(@, PublishCallOf(attempts[1].message))]
    /\ UNCHANGED <<eventStore, orderPublisher>>
    /\ UNCHANGED notDetectorVars

\* the goroutine: t := p.client.Publish(...); t.Wait().  The client has
\* written the message to the broker, or the token has an error; the
\* goroutine has not yet sent on done.  The goroutine of a call that has
\* returned goes on as well as that of the call the handler is waiting in.
GoPublish ==
    /\ \E i \in DOMAIN mqttPublisher.calls, err \in {NoError, "publish error"} :
         /\ mqttPublisher.calls[i].goroutine = "running"
         /\ mqttPublisher' =
               [mqttPublisher EXCEPT
                  !.calls[i].goroutine = "waited",
                  !.calls[i].token = <<err>>,
                  !.calls[i].delivered = (err = NoError),
                  !.topic = IF err = NoError
                            THEN Append(@, mqttPublisher.calls[i].message)
                            ELSE @]
    /\ UNCHANGED detectorVars
    /\ UNCHANGED notDetectorVars

\* the goroutine: done <- t.Error().  The channel has room for one error,
\* so the send does not wait for the select, and the goroutine ends.
GoSendDone ==
    /\ \E i \in DOMAIN mqttPublisher.calls :
         /\ mqttPublisher.calls[i].goroutine = "waited"
         /\ mqttPublisher' =
               [mqttPublisher EXCEPT
                  !.calls[i].goroutine = "finished",
                  !.calls[i].done = mqttPublisher.calls[i].token]
    /\ UNCHANGED detectorVars
    /\ UNCHANGED notDetectorVars

\* select, case err := <-done: return err, and messageHandler logs and
\* returns
ReturnDone ==
    /\ handling.pc = "select"
    /\ \E i \in {Len(mqttPublisher.calls)} :
         /\ mqttPublisher.calls[i].done # <<>>
         /\ mqttPublisher' =
               [mqttPublisher EXCEPT
                  !.calls[i].returned = mqttPublisher.calls[i].done,
                  !.calls[i].done = <<>>]
         /\ handling' = [handling EXCEPT
                           !.pc = "idle",
                           !.err = mqttPublisher.calls[i].done[1]]
    /\ UNCHANGED <<eventStore, orderPublisher>>
    /\ UNCHANGED notDetectorVars

\* select, case <-ctx.Done(): return ctx.Err().  The five seconds of
\* messageHandler's context have passed; the goroutine is left as it is, and
\* messageHandler logs the error and returns.
ReturnDeadline ==
    /\ handling.pc = "select"
    /\ \E i \in {Len(mqttPublisher.calls)} :
         mqttPublisher' =
            [mqttPublisher EXCEPT !.calls[i].returned = <<DeadlineExceeded>>]
    /\ handling' = [handling EXCEPT !.pc = "idle", !.err = DeadlineExceeded]
    /\ UNCHANGED <<eventStore, orderPublisher>>
    /\ UNCHANGED notDetectorVars

DetectorNext ==
    \/ StartPublisher
    \/ OnMessage
    \/ PublishCall
    \/ GoPublish
    \/ GoSendDone
    \/ ReturnDone
    \/ ReturnDeadline

DetectorSpec == Init /\ [][DetectorNext]_vars

\* ---- properties of the detector -----------------------------------------------
\* a step in which messageHandler is called for a message
IsMessage == handling'.n = handling.n + 1

\* the step in which messageHandler calls the order publisher
IsPublishCall == handling.pc = "publish" /\ handling'.pc # "publish"

\* the reading of a well-formed payload, as its members say
ReadingId(payload) == payload[1].members[1].value.str

ReadingTemperature(payload) ==
    payload[1].members[5].value.members[1].value.num

\* C27: a well-formed reading is stored, and the detector goes on to publish
\* a damage event for it if and only if its temperature is below 10.0; the
\* call of the publisher then makes one attempt to publish a damage event
\* that has the reading's id as eventId and orderId, and there is no attempt
\* for any other reading.  For a malformed payload nothing is stored and
\* nothing is published.
C27_EmitsBelowMinimum ==
    [][/\ IsMessage
          => IF handling'.payload \in WellFormedReadings
             THEN /\ Len(eventStore') = Len(eventStore) + 1
                  /\ (handling'.pc = "publish")
                        <=> (ReadingTemperature(handling'.payload) < 100)
             ELSE /\ handling'.pc = "idle"
                  /\ eventStore' = eventStore
                  /\ mqttPublisher' = mqttPublisher
       /\ IsPublishCall
          => /\ Len(handling'.attempts) = 1
             /\ handling'.attempts[1].event.EventID
                   = ReadingId(handling.payload)
             /\ handling'.attempts[1].event.OrderID
                   = ReadingId(handling.payload)
             /\ Len(mqttPublisher'.calls) = Len(mqttPublisher.calls) + 1
       /\ ~IsPublishCall
          => /\ Len(mqttPublisher'.calls) = Len(mqttPublisher.calls)
             /\ handling'.attempts \in {<<>>, handling.attempts}
      ]_vars

\* C28: with the order publisher created, every reading below the minimum
\* has one attempt to publish its damage event to the MQTT output topic and
\* one to publish it to the log-broker topic with the order id as key.
C28_BothOutputsAttempted ==
    [][( /\ IsPublishCall
         /\ orderPublisher # <<>> )
       => /\ Cardinality({i \in DOMAIN handling'.attempts :
                             handling'.attempts[i].to = "mqtt"}) = 1
          /\ Cardinality({i \in DOMAIN handling'.attempts :
                             /\ handling'.attempts[i].to = "kafka"
                             /\ handling'.attempts[i].message.key
                                   = ReadingId(handling.payload)}) = 1
      ]_vars

\* C40: the message of a call of PublishOrderDamageFromSensor that has
\* returned an error, the deadline of the context included, has not been
\* written to the damage topic, at the return and ever after.
C40_FailedNeverDelivered ==
    \A i \in DOMAIN mqttPublisher.calls :
        ( /\ mqttPublisher.calls[i].returned # <<>>
          /\ mqttPublisher.calls[i].returned[1] # NoError )
        => ~mqttPublisher.calls[i].delivered

\* ---- the severity of a sensor value -------------------------------------------
\* temperatures and humidities at, below and above the limits of the
\* severities, in tenths
Temperatures == {-50, 0, 99, 100, 299, 300, 301, 399, 400, 401, 500}

Humidities == {0, 585, 799, 800, 801, 899, 900, 901, 1000, 1200}

\* both PublishOrderDamageFromSensor are called with one sensor value
Derive ==
    /\ \E temperature \in Temperatures, humidity \in Humidities, now \in Times :
          LET mqtt == MqttPublishOrderDamageFromSensor(
                          NewMqttPublisherFromEnv(TRUE), "s1",
                          "mqtt-order-event-client", temperature, humidity,
                          "active", SensorTopic, now)
              kafka == KafkaPublishOrderDamageFromSensor(
                          "s1", "mqtt-order-event-client", temperature,
                          humidity, "active", SensorTopic, now)
          IN built' = <<mqtt[1].event, kafka.event>>
    /\ UNCHANGED <<serviceVars, publisherVars, aggregatorVars, detectorVars, simulatorVars, processVars,
                   twinVars, memoryVars, queueVars, mqttVars>>

SeveritySpec == Init /\ [][Derive]_vars

\* C29: the severity of a damage event is critical when the temperature is
\* 40 or more or the humidity 90 or more, else major when the temperature is
\* 30 or more or the humidity 80 or more, else minor, and the events of the
\* MQTT and of the log-broker publisher have the same severity.
C29_SeverityTable ==
    \A i \in DOMAIN built :
        LET temperature == built[i].Details.Temperature
            humidity == built[i].Details.Humidity
        IN /\ built[i].Severity =
                 CASE temperature >= 400 \/ humidity >= 900 -> "critical"
                   [] /\ ~(temperature >= 400 \/ humidity >= 900)
                      /\ (temperature >= 300 \/ humidity >= 800) -> "major"
                   [] /\ ~(temperature >= 400 \/ humidity >= 900)
                      /\ ~(temperature >= 300 \/ humidity >= 800) -> "minor"
           /\ built[i].Severity = built[1].Severity

\* a value whose temperature alone is major and whose humidity is critical
C29_Witness ==
    /\ built # <<>>
    /\ built[1].Details.Temperature = 301
    /\ built[1].Details.Humidity = 900
    /\ built[1].Severity = "critical"
    /\ built[2].Severity = "critical"

\* ---- the sensor simulator: the temperature limits ---------------------------
TemperatureLimitsRequestFields ==
    <<Field(<<"m", "i", "n", "_", "t", "e", "m", "p", "e", "r", "a", "t", "u", "r", "e">>, "MinTemperature", "float64", <<>>),
      Field(<<"m", "a", "x", "_", "t", "e", "m", "p", "e", "r", "a", "t", "u", "r", "e">>, "MaxTemperature", "float64", <<>>)>>

StatusOK == 200

StatusBadRequest == 400

StatusMethodNotAllowed == 405

\* temperatureLimitsHandler up to its first write: the method is checked, the
\* body decoded and the pair validated; status 0 is a request that goes on
temperatureLimitsHandler(method, body) ==
    LET req == Unmarshal(body, TemperatureLimitsRequestFields) IN
    IF method # "POST"
    THEN [status |-> StatusMethodNotAllowed,
          req |-> Zero(TemperatureLimitsRequestFields)]
    ELSE IF req.err # NoError
    THEN [status |-> StatusBadRequest,
          req |-> Zero(TemperatureLimitsRequestFields)]
    ELSE IF req.value.MinTemperature >= req.value.MaxTemperature
    THEN [status |-> StatusBadRequest, req |-> req.value]
    ELSE [status |-> 0, req |-> req.value]

\* GetTemperatureRandom with the value of rand.Float64() in tenths
GetTemperatureRandom(lowerLimit, upperLimit, rand) ==
    lowerLimit + (rand * (upperLimit - lowerLimit)) \div 10

\* generateEvent, given the limits it has read and the second of time.Now()
generateEvent(lowerLimit, upperLimit, rand, now) ==
    [ID |-> <<"evt_", now>>,
     Timestamp |-> now,
     Type |-> "sensor_reading",
     Source |-> "temperature_sensor_03",
     Data |-> [Temperature |-> GetTemperatureRandom(lowerLimit, upperLimit, rand),
               Humidity |-> 500 + ((now % 30) - 15) * 10,
               Status |-> "active"]]

\* inputs: bodies of POST /temperature-limits and values of rand.Float64()
LimitsBody(min, max) ==
    <<JObject(<<Member(<<"m", "i", "n", "_", "t", "e", "m", "p", "e", "r", "a", "t", "u", "r", "e">>, JNumber(min)),
                Member(<<"m", "a", "x", "_", "t", "e", "m", "p", "e", "r", "a", "t", "u", "r", "e">>, JNumber(max))>>)>>

LimitsBodies ==
    {LimitsBody(150, 250), LimitsBody(20, 60), LimitsBody(120, 70),
     LimitsBody(100, 100), NotJSON}

LimitsRequests ==
    {<<"POST", body>> : body \in LimitsBodies}
        \cup {<<"GET", LimitsBody(150, 250)>>}

Rands == {0, 5}

\* net/http serves a request in a goroutine of its own: the handler runs up
\* to its validation (lines 267 to 282)
Request ==
    /\ Len(handlers) < MaxRequests
    /\ \E request \in LimitsRequests :
          LET h == temperatureLimitsHandler(request[1], request[2]) IN
          handlers' = Append(handlers,
                             [method |-> request[1], body |-> request[2],
                              req |-> h.req,
                              pc |-> IF h.status = 0 THEN "writeMin" ELSE "done",
                              status |-> h.status,
                              response |-> [MinTemperature |-> 0,
                                            MaxTemperature |-> 0]])
    /\ UNCHANGED <<MinTemperature, MaxTemperature, generator>>
    /\ UNCHANGED <<serviceVars, publisherVars, aggregatorVars, detectorVars, built, processVars,
                   twinVars, memoryVars, queueVars, mqttVars>>

\* line 285: MinTemperature = req.MinTemperature
WriteMin ==
    /\ \E i \in DOMAIN handlers :
          /\ handlers[i].pc = "writeMin"
          /\ MinTemperature' = handlers[i].req.MinTemperature
          /\ handlers' = [handlers EXCEPT ![i].pc = "writeMax"]
    /\ UNCHANGED <<MaxTemperature, generator>>
    /\ UNCHANGED <<serviceVars, publisherVars, aggregatorVars, detectorVars, built, processVars,
                   twinVars, memoryVars, queueVars, mqttVars>>

\* line 286: MaxTemperature = req.MaxTemperature
WriteMax ==
    /\ \E i \in DOMAIN handlers :
          /\ handlers[i].pc = "writeMax"
          /\ MaxTemperature' = handlers[i].req.MaxTemperature
          /\ handlers' = [handlers EXCEPT ![i].pc = "respondMin"]
    /\ UNCHANGED <<MinTemperature, generator>>
    /\ UNCHANGED <<serviceVars, publisherVars, aggregatorVars, detectorVars, built, processVars,
                   twinVars, memoryVars, queueVars, mqttVars>>

\* line 293: the response takes MinTemperature
RespondMin ==
    /\ \E i \in DOMAIN handlers :
          /\ handlers[i].pc = "respondMin"
          /\ handlers' = [handlers EXCEPT
                             ![i].response.MinTemperature = MinTemperature,
                             ![i].pc = "respondMax"]
    /\ UNCHANGED <<MinTemperature, MaxTemperature, generator>>
    /\ UNCHANGED <<serviceVars, publisherVars, aggregatorVars, detectorVars, built, processVars,
                   twinVars, memoryVars, queueVars, mqttVars>>

\* lines 294 to 305: the response takes MaxTemperature and is written with 200
RespondMax ==
    /\ \E i \in DOMAIN handlers :
          /\ handlers[i].pc = "respondMax"
          /\ handlers' = [handlers EXCEPT
                             ![i].response.MaxTemperature = MaxTemperature,
                             ![i].status = StatusOK,
                             ![i].pc = "done"]
    /\ UNCHANGED <<MinTemperature, MaxTemperature, generator>>
    /\ UNCHANGED <<serviceVars, publisherVars, aggregatorVars, detectorVars, built, processVars,
                   twinVars, memoryVars, queueVars, mqttVars>>

\* main's loop calls publishEvent, whose generateEvent evaluates the first
\* argument of GetTemperatureRandom (line 181): MinTemperature is read
ReadMin ==
    /\ generator.pc = "idle"
    /\ Len(generator.events) < MaxEvents
    /\ generator' = [generator EXCEPT !.pc = "readMax",
                                      !.lowerLimit = MinTemperature]
    /\ UNCHANGED <<MinTemperature, MaxTemperature, handlers>>
    /\ UNCHANGED <<serviceVars, publisherVars, aggregatorVars, detectorVars, built, processVars,
                   twinVars, memoryVars, queueVars, mqttVars>>

\* the second argument is evaluated, MaxTemperature is read, and the event is
\* generated and published
ReadMax ==
    /\ generator.pc = "readMax"
    /\ \E rand \in Rands, now \in Times :
          generator' = [generator EXCEPT
              !.pc = "idle",
              !.events = Append(@,
                  [lowerLimit |-> generator.lowerLimit,
                   upperLimit |-> MaxTemperature,
                   event |-> generateEvent(generator.lowerLimit,
                                           MaxTemperature, rand, now)])]
    /\ UNCHANGED <<MinTemperature, MaxTemperature, handlers>>
    /\ UNCHANGED <<serviceVars, publisherVars, aggregatorVars, detectorVars, built, processVars,
                   twinVars, memoryVars, queueVars, mqttVars>>

SimulatorNext ==
    \/ Request
    \/ WriteMin
    \/ WriteMax
    \/ RespondMin
    \/ RespondMax
    \/ ReadMin
    \/ ReadMax

SimulatorSpec == Init /\ [][SimulatorNext]_vars

\* the pairs that were valid at some time: the pair of the start and the pair
\* of every request that was not rejected
AcceptedPairs ==
    {<<DefaultMinTemperature, DefaultMaxTemperature>>}
        \cup {<<handlers[i].req.MinTemperature, handlers[i].req.MaxTemperature>> :
                 i \in {j \in DOMAIN handlers :
                           handlers[j].status \in {0, StatusOK}}}

\* C30: the pair of temperature limits changes as one: a request whose minimum
\* is not below its maximum is rejected and never writes, every pair that the
\* generator has read is the pair of the start or of one accepted request, so
\* that its minimum is below its maximum, and so is the pair left when no
\* update is under way.
C30_LimitsPairAtomic ==
    /\ \A i \in DOMAIN handlers :
          handlers[i].req.MinTemperature >= handlers[i].req.MaxTemperature
              => /\ handlers[i].pc = "done"
                 /\ handlers[i].status # StatusOK
    /\ \A i \in DOMAIN generator.events :
          /\ <<generator.events[i].lowerLimit, generator.events[i].upperLimit>>
                \in AcceptedPairs
          /\ generator.events[i].lowerLimit < generator.events[i].upperLimit
    /\ (\A i \in DOMAIN handlers : handlers[i].pc \notin {"writeMin", "writeMax"})
          => <<MinTemperature, MaxTemperature>> \in AcceptedPairs

\* ==== the warehouse batch process: consumer loop and shutdown =================
\* the JSON text of an order event, as order management writes it
OrderEventJSON(eventType, orderID, productID, quantity, status) ==
    <<JObject(<<Member(<<"e", "v", "e", "n", "t", "_", "t", "y", "p", "e">>, JString(eventType)),
                Member(<<"o", "r", "d", "e", "r", "_", "i", "d">>, JString(orderID)),
                Member(<<"o", "r", "d", "e", "r">>,
                       JObject(<<Member(<<"i", "d">>, JString(orderID)),
                                 Member(<<"c", "u", "s", "t", "o", "m", "e", "r", "_", "i", "d">>, JString("c1")),
                                 Member(<<"p", "r", "o", "d", "u", "c", "t", "_", "i", "d">>, JString(productID)),
                                 Member(<<"q", "u", "a", "n", "t", "i", "t", "y">>, JNumber(quantity * 10)),
                                 Member(<<"s", "t", "a", "t", "u", "s">>, JString(status)),
                                 Member(<<"t", "o", "t", "a", "l", "_", "a", "m", "o", "u", "n", "t">>, JNumber(500)),
                                 Member(<<"c", "r", "e", "a", "t", "e", "d", "_", "a", "t">>, JTime(OccurredAt)),
                                 Member(<<"u", "p", "d", "a", "t", "e", "d", "_", "a", "t">>, JTime(OccurredAt))>>)),
                Member(<<"t", "i", "m", "e", "s", "t", "a", "m", "p">>, JTime(OccurredAt))>>)>>

\* the values of the messages the topic holds for the consumer group of the
\* service: order events, and a value that is no JSON text
ConsumedEvents ==
    {OrderEventJSON("order.created", "o1", "p1", 1, "confirmed"),
     OrderEventJSON("order.created", "o2", "p1", 1, "confirmed"),
     OrderEventJSON("order.cancelled", "o1", "p1", 1, "confirmed"),
     OrderEventJSON("order.shipped", "o2", "p1", 1, "confirmed"),
     NotJSON}

\* OrderEventConsumerAdapter.translateMessage: json.Unmarshal of the value
\* into a domain.OrderEvent, of which the service reads the type, the order id
\* and the order's id, product, quantity and status
translateOrderEventMessage(value) ==
    LET d == Unmarshal(value, OrderEventFields) IN
    [event |-> [eventType |-> d.value.EventType, orderId |-> d.value.OrderID,
                order |-> [id |-> d.value.Order.ID,
                           productId |-> d.value.Order.ProductID,
                           quantity |-> d.value.Order.Quantity,
                           status |-> d.value.Order.Status]],
     err |-> d.err]

\* the repository at a call of PublishBatchEvent, from the repository at the
\* call before it: the event's batch is as it was stored then
RepoAt(repo, id, stored) ==
    IF stored = <<>> THEN Delete(repo, id) ELSE Save(repo, stored[1])

\* the variables of the batch service that the consumer loop leaves alone
otherVars ==
    <<clock, publisherVars, aggregatorVars, detectorVars, built, simulatorVars,
      twinVars, memoryVars, queueVars, mqttVars>>

\* OrderEventConsumerAdapter.Start, line 61: adapter.reader.ReadMessage.  The
\* reader was made with a GroupID, and ReadMessage of such a reader commits the
\* offset of the message before it returns it.
ReadMessage ==
    /\ consumer.pc = "select"
    /\ ~shutdown.cancelled /\ ~shutdown.exited
    /\ offset < MaxMessages
    /\ \E value \in ConsumedEvents :
          consumer' = [consumer EXCEPT !.pc = "handling", !.msg = <<value>>]
    /\ offset' = offset + 1
    /\ UNCHANGED <<batches, published, storedAtPublish, calls, last, shutdown>>
    /\ UNCHANGED otherVars

\* lines 75 to 81: the message is translated; a message that cannot be is
\* logged and the loop goes on, for the others HandleOrderEvent is called.
\* What the call does to the repository is decided here and is done call by
\* call of PublishBatchEvent: pending are the events it will hand to the
\* publisher, each with what the repository holds of its batch then.
HandleMessage ==
    /\ consumer.pc = "handling"
    /\ ~shutdown.exited
    /\ \E t \in {translateOrderEventMessage(consumer.msg[1])} :
          IF t.err # NoError
          THEN consumer' = [consumer EXCEPT !.pc = "select", !.msg = <<>>,
                                            !.handled = @ + 1,
                                            !.attempts = 0, !.onClosed = 0]
          ELSE \E r \in HandleOrderEvent(ServiceState(FALSE), clock, t.event) :
                  consumer' =
                     [consumer EXCEPT
                        !.pc = "publishing",
                        !.attempts = 0,
                        !.onClosed = 0,
                        !.pending =
                           [k \in 1..(Len(r.pub.events) - Len(published)) |->
                              [event |-> r.pub.events[Len(published) + k],
                               stored |-> r.pub.storedThen[Len(published) + k]]],
                        !.result = <<[event |-> t.event, repo |-> r.repo,
                                      batchId |-> r.batchId, err |-> r.err]>>]
    /\ UNCHANGED <<batches, published, storedAtPublish, calls, last, offset,
                   shutdown>>
    /\ UNCHANGED otherVars

\* HandleOrderEvent up to its next call of PublishBatchEvent: the call of the
\* repository before it stores the batch of the event, or deletes it, and
\* releases the mutex of the repository
SaveNext ==
    /\ consumer.pc = "publishing"
    /\ consumer.pending # <<>>
    /\ ~consumer.saved
    /\ ~shutdown.exited
    /\ \E p \in {Head(consumer.pending)} :
          batches' = RepoAt(batches, p.event.batchId, p.stored)
    /\ consumer' = [consumer EXCEPT !.saved = TRUE]
    /\ UNCHANGED <<published, storedAtPublish, calls, last, offset, shutdown>>
    /\ UNCHANGED otherVars

\* the call of PublishBatchEvent that follows.  The service only logs its
\* error, and the writer of a closed publisher returns one: the event is then
\* attempted and not published.
PublishNext ==
    /\ consumer.pc = "publishing"
    /\ consumer.pending # <<>>
    /\ consumer.saved
    /\ ~shutdown.exited
    /\ \E p \in {Head(consumer.pending)} :
          /\ published' = IF shutdown.closed THEN published
                          ELSE Append(published, p.event)
          /\ storedAtPublish' = IF shutdown.closed THEN storedAtPublish
                                ELSE Append(storedAtPublish, p.stored)
          /\ consumer' = [consumer EXCEPT
                            !.pending = Tail(@),
                            !.saved = FALSE,
                            !.attempts = @ + 1,
                            !.onClosed = IF shutdown.closed THEN @ + 1 ELSE @]
    /\ UNCHANGED <<batches, calls, last, offset, shutdown>>
    /\ UNCHANGED otherVars

\* HandleOrderEvent after its last call of PublishBatchEvent, and its return
\* to the loop, lines 82 to 84
FinishHandling ==
    /\ consumer.pc = "publishing"
    /\ consumer.pending = <<>>
    /\ ~shutdown.exited
    /\ batches' = consumer.result[1].repo
    /\ last' = [op |-> "HandleOrderEvent", event |-> consumer.result[1].event,
                batchId |-> consumer.result[1].batchId,
                err |-> consumer.result[1].err]
    /\ consumer' = [consumer EXCEPT !.pc = "select", !.msg = <<>>,
                                    !.result = <<>>, !.handled = @ + 1]
    /\ calls' = calls + 1
    /\ UNCHANGED <<published, storedAtPublish, offset, shutdown>>
    /\ UNCHANGED otherVars

\* lines 52 to 55: the loop finds the context cancelled and closes the reader
StopConsumer ==
    /\ consumer.pc = "select"
    /\ shutdown.cancelled /\ ~shutdown.exited
    /\ consumer' = [consumer EXCEPT !.pc = "stopped"]
    /\ UNCHANGED <<batches, published, storedAtPublish, calls, last, offset,
                   shutdown>>
    /\ UNCHANGED otherVars

\* setupGracefulShutdown, lines 193 to 197: a signal arrives, cancel()
CancelContext ==
    /\ ~shutdown.cancelled /\ ~shutdown.exited
    /\ shutdown' = [shutdown EXCEPT !.cancelled = TRUE]
    /\ UNCHANGED <<batches, published, storedAtPublish, calls, last, offset,
                   consumer>>
    /\ UNCHANGED otherVars

\* lines 200 to 202: batchEventPublisher.Close()
ClosePublisher ==
    /\ shutdown.cancelled /\ ~shutdown.closed /\ ~shutdown.exited
    /\ shutdown' = [shutdown EXCEPT !.closed = TRUE]
    /\ UNCHANGED <<batches, published, storedAtPublish, calls, last, offset,
                   consumer>>
    /\ UNCHANGED otherVars

\* lines 205 and 184: after the two seconds main returns and the process, with
\* every goroutine it has, ends
Exit ==
    /\ shutdown.closed /\ ~shutdown.exited
    /\ shutdown' = [shutdown EXCEPT !.exited = TRUE]
    /\ UNCHANGED <<batches, published, storedAtPublish, calls, last, offset,
                   consumer>>
    /\ UNCHANGED otherVars

\* the process is killed
Crash ==
    /\ ~shutdown.cancelled /\ ~shutdown.exited
    /\ shutdown' = [shutdown EXCEPT !.exited = TRUE]
    /\ UNCHANGED <<batches, published, storedAtPublish, calls, last, offset,
                   consumer>>
    /\ UNCHANGED otherVars

\* main, lines 135 to 182: the process is started again with a new repository,
\* and its reader goes on from the offset of the group
Restart ==
    /\ shutdown.exited
    /\ shutdown.restarts < MaxRestarts
    /\ batches' = <<>>
    /\ consumer' = [consumer EXCEPT !.pc = "select", !.msg = <<>>,
                                    !.pending = <<>>, !.saved = FALSE,
                                    !.result = <<>>]
    /\ shutdown' = [cancelled |-> FALSE, closed |-> FALSE, exited |-> FALSE,
                    restarts |-> shutdown.restarts + 1]
    /\ UNCHANGED <<published, storedAtPublish, calls, last, offset>>
    /\ UNCHANGED otherVars

ConsumerNext ==
    \/ ReadMessage
    \/ HandleMessage
    \/ SaveNext
    \/ PublishNext
    \/ FinishHandling
    \/ StopConsumer
    \/ CancelContext
    \/ ClosePublisher
    \/ Exit
    \/ Crash
    \/ Restart

ConsumerSpec == Init /\ [][ConsumerNext]_vars

\* C31: the offset of a message is committed only after the handler of the
\* message has returned, so that the committed offset never exceeds the
\* number of messages handled, and a message whose handling did not complete
\* is read again: when no message is in handling, every message up to the
\* committed offset was handled.
C31_CommitAfterHandling ==
    /\ offset <= consumer.handled
    /\ consumer.pc \notin {"handling", "publishing"} => offset = consumer.handled

\* C32: the publisher is closed only when the consumer is in no
\* HandleOrderEvent, and no handling has attempted a PublishBatchEvent on a
\* publisher that was closed.
C32_CloseAfterInFlight ==
    /\ shutdown.closed => consumer.pc \notin {"handling", "publishing"}
    /\ consumer.onClosed = 0

\* ==== the batch service: identity of batches, redelivery and timing ============
\* C36: the id of a batch that is created is the id of no batch that the
\* repository holds, and every batch held before the creation is held after
\* it: a creation replaces no batch.
C36_CreationKeepsBatches ==
    [][( /\ IsCall
         /\ \E k \in DOMAIN NewEvents : NewEvents[k].eventType = BatchEventCreated )
       => /\ \A k \in DOMAIN NewEvents :
                NewEvents[k].eventType = BatchEventCreated
                    => NewEvents[k].batchId \notin DOMAIN batches
          /\ DOMAIN batches \subseteq DOMAIN batches'
      ]_vars

\* the batches that hold an item of the order
BatchesOfOrder(repo, orderID) ==
    {id \in DOMAIN repo : HasOrder(repo[id], orderID)}

\* C37: an order id is an item of at most one stored batch.
C37_OrderInOneBatch ==
    \A o \in OrderIds : Cardinality(BatchesOfOrder(batches, o)) <= 1

\* a batch without its id, which holds the second of its creation
Untimed(b) ==
    [productId |-> b.productId, status |-> b.status, items |-> b.items,
     totalItems |-> b.totalItems, processedAt |-> b.processedAt]

\* the batches of a repository up to timestamps: how many batches there are
\* of each kind
UntimedBatches(repo) ==
    [u \in {Untimed(repo[id]) : id \in DOMAIN repo} |->
        Cardinality({id \in DOMAIN repo : Untimed(repo[id]) = u})]

\* C38: when a warehouse-relevant order event was handled, handling it once
\* more, in the same second or the next, leaves the repository as it is up to
\* timestamps, whatever batch the queries of the second handling find.
C38_RedeliveryHarmless ==
    ( /\ last.op = "HandleOrderEvent"
      /\ IsWarehouseRelevant(last.event) )
    => \A now \in {clock, clock + 1} :
          \A r \in HandleOrderEvent(State, now, last.event) :
             UntimedBatches(r.repo) = UntimedBatches(batches)

\* ---- two runs of one event sequence --------------------------------------
\* The batch service as one run of it sees it: its repository and a working
\* publisher.  What the run has published is kept as the event types.
RunState(run) ==
    [repo |-> run.repo,
     pub |-> MockBatchEventPublisher(<<>>, FALSE) @@ [storedThen |-> <<>>]]

EventTypesOf(events) == [i \in DOMAIN events |-> events[i].eventType]

\* the run after HandleOrderEvent returned outcome r
RunAfter(run, r) ==
    [run EXCEPT !.repo = r.repo,
                !.types = @ \o EventTypesOf(r.pub.events)]

\* the next order event of the sequence is handled by both runs, by each at
\* the time of its own clock
TwinHandle ==
    /\ twin.handled < MaxTwinEvents
    /\ \E event \in OrderEvents :
         \E ra \in HandleOrderEvent(RunState(twin.a), twin.a.now, event) :
            \E rb \in HandleOrderEvent(RunState(twin.b), twin.b.now, event) :
               twin' = [a |-> RunAfter(twin.a, ra),
                        b |-> RunAfter(twin.b, rb),
                        handled |-> twin.handled + 1]
    /\ UNCHANGED <<serviceVars, publisherVars, aggregatorVars, detectorVars, built, simulatorVars,
                   processVars, memoryVars, queueVars, mqttVars>>

\* a second passes between two events of the first run
TwinTickA ==
    /\ twin.handled < MaxTwinEvents
    /\ twin.a.now < MaxClock
    /\ twin' = [twin EXCEPT !.a.now = @ + 1]
    /\ UNCHANGED <<serviceVars, publisherVars, aggregatorVars, detectorVars, built, simulatorVars,
                   processVars, memoryVars, queueVars, mqttVars>>

\* a second passes between two events of the second run
TwinTickB ==
    /\ twin.handled < MaxTwinEvents
    /\ twin.b.now < MaxClock
    /\ twin' = [twin EXCEPT !.b.now = @ + 1]
    /\ UNCHANGED <<serviceVars, publisherVars, aggregatorVars, detectorVars, built, simulatorVars,
                   processVars, memoryVars, queueVars, mqttVars>>

TwinNext == TwinHandle \/ TwinTickA \/ TwinTickB

TwinSpec == Init /\ [][TwinNext]_vars

\* C33: two runs of the batch service that have handled the same sequence of
\* order events, at whatever times, hold the same batches up to batch ids and
\* timestamps (product, status, items, item statuses) and have published the
\* same sequence of batch event types.
C33_TimingIndependent ==
    /\ UntimedBatches(twin.a.repo) = UntimedBatches(twin.b.repo)
    /\ twin.a.types = twin.b.types

\* ---- BatchMemoryRepository and the pointers of a batch -------------------
\* A Batch with its ProcessedAt fields as pointers: 0 is nil, p > 0 is the
\* cell memory.cells[p].  CreatedAt, UpdatedAt and AddedAt are values and are
\* copied with the struct.
NilTime == 0

CellTimes == 0..MaxClock

NewBatchAt(id, productID) ==
    [id |-> id, productId |-> productID, status |-> BatchStatusPending,
     items |-> <<>>, totalItems |-> 0, processedAt |-> NilTime]

\* the copy every Save, Find* and GetAll makes: batchCopy := *batch copies the
\* fields, the ProcessedAt pointer among them; copy(itemsCopy, batch.Items)
\* copies the item structs, each with its ProcessedAt pointer
CopyBatch(b) ==
    [b EXCEPT !.items = [i \in DOMAIN b.items |-> b.items[i]]]

\* what a batch says once its pointers are followed
TimeAt(cells, p) == IF p = NilTime THEN <<>> ELSE <<cells[p]>>

BatchValue(b, cells) ==
    [b EXCEPT !.processedAt = TimeAt(cells, b.processedAt),
              !.items = [i \in DOMAIN b.items |->
                            [b.items[i] EXCEPT
                               !.processedAt = TimeAt(cells, b.items[i].processedAt)]]]

\* what the repository holds
Holds(m) == [id \in DOMAIN m.batches |-> BatchValue(m.batches[id], m.cells)]

\* domain.NewBatch: a caller makes a batch
CallerNewBatch ==
    /\ \E productID \in ProductIds :
         memory' = [memory EXCEPT !.held = <<NewBatchAt("b1", productID)>>]
    /\ UNCHANGED <<serviceVars, publisherVars, aggregatorVars, detectorVars, built, simulatorVars,
                   processVars, twinVars, queueVars, mqttVars>>

\* BatchMemoryRepository.Save with the batch the caller holds
RepositorySave ==
    /\ memory.held # <<>>
    /\ \E b \in {memory.held[1]} :
         memory' = [memory EXCEPT
                      !.batches = Save(@, CopyBatch(b))]
    /\ UNCHANGED <<serviceVars, publisherVars, aggregatorVars, detectorVars, built, simulatorVars,
                   processVars, twinVars, queueVars, mqttVars>>

\* FindByID, FindByOrderID, FindPendingBatchForProduct and each element of
\* FindByProductID, FindByStatus and GetAll: a copy of a stored batch
RepositoryFind ==
    /\ \E id \in DOMAIN memory.batches :
         memory' = [memory EXCEPT !.held = <<CopyBatch(memory.batches[id])>>]
    /\ UNCHANGED <<serviceVars, publisherVars, aggregatorVars, detectorVars, built, simulatorVars,
                   processVars, twinVars, queueVars, mqttVars>>

\* Batch.AddItem on the held batch, with the product of the batch.  For an
\* order that is in it the item's quantity and status are set and its
\* ProcessedAt is left as it is; for another b.Items = append(b.Items, item),
\* the item with a nil ProcessedAt.  The held copy alone is written.
CallerAddItem ==
    /\ memory.held # <<>>
    /\ memory.held[1].status \notin {BatchStatusCompleted, BatchStatusCancelled}
    /\ \E orderID \in OrderIds :
       \E i \in {ItemIndex(memory.held[1], orderID)} :
         IF i # 0
         THEN memory' = [memory EXCEPT !.held[1].items[i].quantity = 1,
                                       !.held[1].items[i].status = "allocated"]
         ELSE \E its \in {Append(memory.held[1].items,
                                [orderId |-> orderID,
                                 productId |-> memory.held[1].productId,
                                 quantity |-> 1, status |-> "allocated",
                                 processedAt |-> NilTime])} :
               memory' = [memory EXCEPT !.held[1].items = its,
                                        !.held[1].totalItems = Len(its)]
    /\ UNCHANGED <<serviceVars, publisherVars, aggregatorVars, detectorVars, built, simulatorVars,
                   processVars, twinVars, queueVars, mqttVars>>

\* Batch.UpdateItemStatus on the held batch: b.Items[i].Status = status, and
\* for a shipped item now := time.Now(); b.Items[i].ProcessedAt = &now
CallerUpdateItemStatus ==
    /\ memory.held # <<>>
    /\ Len(memory.cells) < MaxCells
    /\ \E i \in DOMAIN memory.held[1].items, now \in CellTimes :
         memory' = [memory EXCEPT
                      !.cells = Append(@, now),
                      !.held[1].items[i].status = "shipped",
                      !.held[1].items[i].processedAt = Len(memory.cells) + 1]
    /\ UNCHANGED <<serviceVars, publisherVars, aggregatorVars, detectorVars, built, simulatorVars,
                   processVars, twinVars, queueVars, mqttVars>>

\* Batch.StartProcessing on the held batch
CallerStartProcessing ==
    /\ memory.held # <<>>
    /\ memory.held[1].status = BatchStatusPending
    /\ memory' = [memory EXCEPT !.held[1].status = BatchStatusProcessing]
    /\ UNCHANGED <<serviceVars, publisherVars, aggregatorVars, detectorVars, built, simulatorVars,
                   processVars, twinVars, queueVars, mqttVars>>

\* Batch.Complete on the held batch: now := time.Now(); b.ProcessedAt = &now
CallerComplete ==
    /\ memory.held # <<>>
    /\ memory.held[1].status = BatchStatusProcessing
    /\ Len(memory.cells) < MaxCells
    /\ \E now \in CellTimes :
         memory' = [memory EXCEPT
                      !.cells = Append(@, now),
                      !.held[1].status = BatchStatusCompleted,
                      !.held[1].processedAt = Len(memory.cells) + 1]
    /\ UNCHANGED <<serviceVars, publisherVars, aggregatorVars, detectorVars, built, simulatorVars,
                   processVars, twinVars, queueVars, mqttVars>>

\* the pointers of the held batch that point to a cell
HeldPointers ==
    IF memory.held = <<>> THEN {}
    ELSE ({memory.held[1].processedAt}
          \cup {memory.held[1].items[i].processedAt :
                   i \in DOMAIN memory.held[1].items}) \ {NilTime}

\* a caller sets the time a ProcessedAt of the held batch points to:
\* *batch.ProcessedAt = t, *batch.Items[i].ProcessedAt = t
CallerSetProcessedAt ==
    /\ \E p \in HeldPointers, t \in CellTimes :
         /\ t # memory.cells[p]
         /\ memory' = [memory EXCEPT !.cells[p] = t]
    /\ UNCHANGED <<serviceVars, publisherVars, aggregatorVars, detectorVars, built, simulatorVars,
                   processVars, twinVars, queueVars, mqttVars>>

MemoryNext ==
    \/ CallerNewBatch
    \/ RepositorySave
    \/ RepositoryFind
    \/ CallerAddItem
    \/ CallerUpdateItemStatus
    \/ CallerStartProcessing
    \/ CallerComplete
    \/ CallerSetProcessedAt

MemorySpec == Init /\ [][MemoryNext]_vars

\* C35: what the repository holds changes only by a Save: no step on a batch
\* obtained from a Find or handed to a Save before (a change of its fields,
\* of its items, or of the times its ProcessedAt fields point to) changes a
\* stored batch.
C35_SnapshotsIsolated ==
    [][memory'.batches = memory.batches => Holds(memory') = Holds(memory)]_vars

\* ---- the damage event from the detector to order management --------------
\* the decoded event says what the encoded one said: the detector's numbers
\* are in tenths, order management's Humidity is an int in whole units
SameDamageEvent(decoded, evt) ==
    /\ decoded.EventID = evt.EventID
    /\ decoded.Type = evt.Type
    /\ decoded.Source = evt.Source
    /\ decoded.OccurredAt = evt.OccurredAt
    /\ decoded.OrderID = evt.OrderID
    /\ decoded.Severity = evt.Severity
    /\ decoded.Description = evt.Description
    /\ decoded.Details.Temperature = evt.Details.Temperature
    /\ decoded.Details.Humidity * 10 = evt.Details.Humidity
    /\ decoded.Details.Status = evt.Details.Status
    /\ decoded.Details.MqttTopic = evt.Details.MqttTopic

\* C34: the damage event the detector has built and encoded for the MQTT
\* topic is decoded by order management's handleOrderDamageEvent without an
\* error and into the same value, field by field, for every temperature and
\* every humidity, a humidity that is no whole number included.
C34_DamageEventRoundTrip ==
    built # <<>>
    => \A d \in {handleOrderDamageEvent(
                    [Payload |-> MarshalOrderDamageEvent(built[1])])} :
          /\ d.err = NoError
          /\ SameDamageEvent(d.event, built[1])

\* ---- order management: the queue and its consumer ------------------------
\* The consumer is registered with auto-ack false and without a prefetch
\* limit (Consume, lines 97 to 105; there is no channel.Qos): the broker
\* sends every ready message to the consumer at once and holds it as
\* unacknowledged, and the client keeps the deliveries it has received
\* (buffer) until the loop of Start takes them from msgs.  The HTTP server
\* serves its requests beside the loop.
\* the bodies published to the queue: damage events for a new and for a known
\* order, an order event, and bodies that are not translated
QueueBodies ==
    {WrappedDamageEvent("o1", "minor"), OrderEventBody, NotJSON}

QueueMessage(id, body, redelivered) ==
    [id |-> id, body |-> body, redelivered |-> redelivered]

\* a message is published to the queue
QueuePublish ==
    /\ queue.published < MaxQueued
    /\ \E body \in QueueBodies :
         queue' = [queue EXCEPT
                     !.published = @ + 1,
                     !.ready = Append(@, QueueMessage(queue.published + 1,
                                                      body, FALSE))]
    /\ UNCHANGED aggregatorVars
    /\ UNCHANGED notAggregatorVars

\* the broker sends the next ready message to the consumer: it is
\* unacknowledged from then on, whatever the number of deliveries the
\* consumer has not settled yet
BrokerDeliver ==
    /\ queue.connected
    /\ queue.consuming
    /\ queue.ready # <<>>
    /\ queue' = [queue EXCEPT !.ready = Tail(@),
                              !.unacked = Append(@, Head(queue.ready)),
                              !.buffer = Append(@, Head(queue.ready))]
    /\ UNCHANGED aggregatorVars
    /\ UNCHANGED notAggregatorVars

\* the time at which a delivery is taken from the queue
ReceiveTimes == {3}

\* OrderConsumerAdapter.Start, case delivery, ok := <-msgs with ok true: the
\* loop takes the next delivery the client has received, translates it and
\* calls the handler of its type.  A delivery received before the connection
\* was lost can still be taken after it.
Receive ==
    /\ queue.consuming
    /\ delivery.pc = "select"
    /\ queue.buffer # <<>>
    /\ queue' = [queue EXCEPT !.buffer = Tail(@),
                              !.inHand = <<Head(queue.buffer)>>]
    /\ \E now \in ReceiveTimes :
          delivery' = StartDelivery(delivery, Head(queue.buffer).body, now)
    /\ UNCHANGED <<orders, orderPublished, api>>
    /\ UNCHANGED notAggregatorVars

\* HandleOrderDamageEvent makes its next call, with the in-memory order
\* repository, whose calls fail for no reason of their own
HandleInMemory == HandleWith({""})

\* the connection to the broker is lost: the broker puts every
\* unacknowledged delivery back into the queue as redelivered, those the
\* loop has not taken yet included.  The orders are kept, and the loop goes
\* on with the delivery it has in hand.
ConnectionLost ==
    /\ queue.connected
    /\ queue.lost < MaxLost
    /\ queue' = [queue EXCEPT
                   !.lost = @ + 1,
                   !.connected = FALSE,
                   !.unacked = <<>>,
                   !.ready = [i \in DOMAIN queue.unacked |->
                                [queue.unacked[i] EXCEPT !.redelivered = TRUE]]
                             \o @]
    /\ UNCHANGED aggregatorVars
    /\ UNCHANGED notAggregatorVars

\* OrderConsumerAdapter.Start, case delivery, ok := <-msgs with ok false:
\* "Message channel closed", Start returns; the deliveries the loop has not
\* taken are dropped with the channel.  main waits for a signal and the API
\* goes on serving the orders; nothing consumes the queue any more.
MessageChannelClosed ==
    /\ queue.consuming
    /\ ~queue.connected
    /\ delivery.pc = "select"
    /\ queue' = [queue EXCEPT !.consuming = FALSE, !.buffer = <<>>]
    /\ UNCHANGED aggregatorVars
    /\ UNCHANGED notAggregatorVars

\* the process is stopped and started again by its operator: main connects,
\* makes an empty MemoryOrderRepository and starts the consumer and the HTTP
\* server; the requests of the old process are gone with it
StartService ==
    /\ ~queue.consuming
    /\ ~queue.connected
    /\ queue' = [queue EXCEPT !.connected = TRUE, !.consuming = TRUE]
    /\ orders' = NewMemoryOrderRepository.orders
    /\ api' = [api EXCEPT !.create = <<>>, !.update = <<>>]
    /\ UNCHANGED <<orderPublished, delivery>>
    /\ UNCHANGED notAggregatorVars

QueueNext ==
    \/ QueuePublish
    \/ BrokerDeliver
    \/ Receive
    \/ HandleInMemory
    \/ Settle
    \/ ConnectionLost
    \/ MessageChannelClosed
    \/ StartService
    \/ ApiCreateOrder
    \/ ApiCreateOrderNext
    \/ ApiUpdateOrderStatus
    \/ ApiUpdateOrderStatusNext

\* Receive is enabled exactly when the loop is at its select and the client
\* has a delivery for it: StartDelivery has an outcome for every body
ReceiveEnabled ==
    queue.consuming /\ delivery.pc = "select" /\ queue.buffer # <<>>

\* WF_vars(Receive), with its ENABLED <<Receive>>_vars written as
\* ReceiveEnabled
FairReceive == []<>(~ReceiveEnabled) \/ []<><<Receive>>_vars

\* WF_vars(HandleInMemory): the handler has a next call whenever it is called
FairHandle == []<>(delivery.pc # "handling") \/ []<><<HandleInMemory>>_vars

\* WF_vars(Settle)
FairSettle == []<>(delivery.pc # "settle") \/ []<><<Settle>>_vars

\* the broker sends what is ready, and the loop of Start takes the next
\* delivery whenever there is one and runs its body to the end; nothing makes
\* a request arrive, the connection come back or the process start again
QueueSpec ==
    /\ Init /\ [][QueueNext]_vars
    /\ WF_vars(BrokerDeliver) /\ FairReceive /\ FairHandle /\ FairSettle
    /\ WF_vars(MessageChannelClosed)

IsUnacked(id) == \E i \in DOMAIN queue.unacked : queue.unacked[i].id = id

IsSettled(id) == \E i \in DOMAIN queue.settled : queue.settled[i].id = id

\* C39: every message delivered to the consumer of order management is
\* finally settled, by an Ack or by a Nack without requeue, after finitely
\* many deliveries: none is requeued for ever.
C39_EveryDeliverySettled ==
    \A id \in 1..MaxQueued : IsUnacked(id) ~> IsSettled(id)

\* with the in-memory repository no handling ends in a Nack with requeue
NeverNackedWithRequeue ==
    \A i \in DOMAIN delivery.settled : ~delivery.settled[i].requeue

\* a delivery is settled or the connection it came on is lost
SettledOrConnectionLost ==
    \A id \in 1..MaxQueued : IsUnacked(id) ~> (IsSettled(id) \/ ~queue.connected)

\* the order of a message was changed and its event published, the connection
\* was lost before the Ack, and the message is back in the queue
HandledAndRedelivered ==
    /\ ~queue.connected
    /\ queue.settled = <<>>
    /\ queue.ready # <<>>
    /\ queue.ready[1].redelivered
    /\ "o1" \in DOMAIN orders
    /\ orderPublished # <<>>

\* one message of the queue has got two order.damage_processed events
HandledTwice ==
    /\ queue.published = 1
    /\ Len(SelectSeq(orderPublished,
                     LAMBDA e : e.EventType = "order.damage_processed")) = 2

\* two deliveries were unacknowledged at once, and the lost connection has
\* put both back into the queue as redelivered
BothRedelivered ==
    /\ Len(queue.ready) = 2
    /\ queue.ready[1].redelivered
    /\ queue.ready[2].redelivered

====
